---- MODULE Spec2Model ----
(***************************************************************************)
(* AdHunt3r: the tab-scoped coordinator (background/background.js) with    *)
(* its rolling 24-hour counters kept in chrome.storage.local, and the ad   *)
(* position classifier of the page-embedded observer.                      *)
(*                                                                         *)
(* Storage model: chrome.storage.local serves requests in the order they   *)
(* are issued and delivers their callbacks in that order.  A get therefore *)
(* sees the effect of every set issued before it, which is modelled by     *)
(* taking the snapshot (and applying a set) when the request is issued and *)
(* queueing only the callback in `pending`.  Handlers run to completion;   *)
(* callbacks of different requests interleave with later messages.         *)
(*                                                                         *)
(* Time is Date.now() in milliseconds.  The opaque payloads debugInfo and  *)
(* adTypeInfo are carried by the code but never inspected by the           *)
(* coordinator, except debugInfo.debug_videoId in updateTabData.           *)
(*                                                                         *)
(* Specifications: Spec (every coordinator handler, no clock advance),     *)
(* SpecAds (ad counting around the 5-second window), SpecCounters (both    *)
(* collections around the 24-hour limit), SpecQuery (the video query over  *)
(* lists left in storage by earlier runs), SpecClassify (the page          *)
(* observer's position context and classifier).                            *)
(***************************************************************************)
EXTENDS Integers, Sequences, FiniteSets, TLC

VARIABLES
  now,                      \* Date.now()
  debugDataByTab,           \* tabId -> record (a JS object used as a map)
  lastCountedVideoIdByTab,  \* tabId -> video id
  lastAdStateByTab,         \* tabId -> BOOLEAN
  lastCountedAdIdByTab,     \* tabId -> [adId, timestamp]
  globalVideoProcessing,    \* Set of video ids being counted
  badge,                    \* tabId -> badge text set through chrome.action
  adTimestamps,             \* chrome.storage.local: adTimestamps
  videoTimestamps,          \* chrome.storage.local: videoTimestamps
  pending,                  \* storage callbacks not yet run, FIFO
  lastEvent,                \* history: the handler or callback that ran last
  adCounted,                \* history: activations that passed handleAdCounting
  videoPushed,              \* history: entries pushed by handleVideoCounting
  nEvents,                  \* history: number of messages handled
  ticks,                    \* history: number of clock advances
  clears,                   \* history: number of times tracking maps were cleared
  sinceReset,               \* history: "never", "requested", "acked" (reset acknowledged and
                            \* no Observation Event since), "stale"
  cls,                      \* page observer: position context, and the inputs and result
                            \* of the last position classification
  obs,                      \* page observer: the sampling pass (ids seen last, retries, the
                            \* record posted, the ad descriptor) and history of the ad run
  cs                        \* content script: messageBuffer, checkAdStatus state and
                            \* history of the messages sent

vars == <<now, debugDataByTab, lastCountedVideoIdByTab, lastAdStateByTab,
          lastCountedAdIdByTab, globalVideoProcessing, badge, adTimestamps,
          videoTimestamps, pending, lastEvent, adCounted, videoPushed,
          nEvents, ticks, clears, sinceReset, cls, obs, cs>>

coordVars == <<now, debugDataByTab, lastCountedVideoIdByTab, lastAdStateByTab,
               lastCountedAdIdByTab, globalVideoProcessing, badge, adTimestamps,
               videoTimestamps, pending, lastEvent, adCounted, videoPushed,
               nEvents, ticks, clears, sinceReset>>

----------------------------------------------------------------------------
(* Bounds of the model *)

MaxEvents == 3          \* messages and tab events handled (Spec)
MaxAdEvents == 3        \* messages handled (SpecAds)
MaxAdTicks == 1         \* clock advances (SpecAds)
MaxCounterEvents == 2   \* messages handled (SpecCounters)
MaxCounterTicks == 1    \* clock advances (SpecCounters)
MaxStored == 3          \* entries of a stored list (SpecQuery)
MaxQueryEvents == 2     \* messages handled (SpecQuery)
MaxQueryTicks == 1      \* clock advances (SpecQuery)

StartTime == 2 * 86400000
Tabs == {1, 2}

(* Program constants *)

DAY_MS == 86400000
AD_DEDUP_MS == 5000
MIN_VIDEO_ID_LENGTH == 10
MAX_ENTRIES == 50
MAX_AGE == 900000
MAX_PROCESSING == 25

(* JS values *)

Null == "null"
Undefined == "undefined"
Truthy(x) == x \notin {Null, Undefined, ""}

AdIds == {"ad_AAAAAAAA", "ad_BBBBBBBB"}
VideoIds == {"vid_AAAAAAA", "vid_BBBBBBB"}
DebugTexts == {"", "dbg"}

IdLength(id) == Len(id)

MapRemove(m, t) == [x \in DOMAIN m \ {t} |-> m[x]]
MapPut(m, t, v) == [x \in DOMAIN m \cup {t} |-> IF x = t THEN v ELSE m[x]]
EmptyMap == [x \in {} |-> Null]

SelectWithin(list, ref) ==
  SelectSeq(list, LAMBDA item : (ref - item.timestamp) <= DAY_MS)

UniqueIds(list) == {list[i].id : i \in 1..Len(list)}


----------------------------------------------------------------------------
(* Messages of the content script and helpers of the coordinator *)

\* content script: adActive is derived from the ad id of the page record
ObserverMessage(text, adId, videoId, infoVideoId) ==
  [debugText |-> text, adActive |-> Truthy(adId), addebug_videoId |-> adId,
   debug_videoId |-> videoId, debugInfo |-> [debug_videoId |-> infoVideoId]]

\* the page script resolves debug_videoId from debugInfo.debug_videoId first
ObservationEvents(texts, adIds, videoIds) ==
  {m \in {ObserverMessage(text, adId, videoId, info) :
             text \in texts, adId \in adIds, videoId \in videoIds, info \in videoIds} :
     m.debugInfo.debug_videoId \in {Null, m.debug_videoId}}

createEmptyTabData(t) ==
  [debugText |-> "", adActive |-> FALSE, addebug_videoId |-> Null,
   debug_videoId |-> Null, lastUpdate |-> t]

updateTabData(message, hasAd, t) ==
  [debugText |-> message.debugText,
   adActive |-> hasAd,
   addebug_videoId |-> message.addebug_videoId,
   debug_videoId |-> IF Truthy(message.debug_videoId) THEN message.debug_videoId
                     ELSE IF Truthy(message.debugInfo.debug_videoId)
                          THEN message.debugInfo.debug_videoId
                          ELSE Null,
   lastUpdate |-> t]

\* background.js:125
HasAd(message) == message.adActive \/ Truthy(message.addebug_videoId)

\* background.js:129-131; without a record currentTabData.adActive is undefined
AdStateChanged(message, hasRecord, current) ==
  IF ~hasRecord THEN TRUE
  ELSE \/ HasAd(message) # current.adActive
       \/ (HasAd(message) /\ Truthy(message.addebug_videoId)
             /\ message.addebug_videoId # current.addebug_videoId)
       \/ (~HasAd(message) /\ current.adActive)

\* faulty variant: a change of the debug text alone is not applied
ShouldUpdateData_IgnoresText(message, hasRecord, current, record) ==
  \/ AdStateChanged(message, hasRecord, current)
  \/ message.debug_videoId # record.debug_videoId

\* background.js:139-141
ShouldUpdateData(message, hasRecord, current, record) ==
  \/ AdStateChanged(message, hasRecord, current)
  \/ message.debugText # record.debugText
  \/ message.debug_videoId # record.debug_videoId

\* updateBadge: the new lastAdStateByTab and badge
BadgeChanges(state, tabId, hasAd) ==
  (tabId \notin DOMAIN state) \/ (state[tabId] # hasAd)

\* faulty variant: the map is replaced by one that holds this tab only
updateBadgeState_ForgetsOthers(state, tabId, hasAd) ==
  IF BadgeChanges(state, tabId, hasAd) THEN [x \in {tabId} |-> hasAd] ELSE state

updateBadgeState(state, tabId, hasAd) ==
  IF BadgeChanges(state, tabId, hasAd) THEN MapPut(state, tabId, hasAd) ELSE state

updateBadgeText(state, text, tabId, hasAd) ==
  IF BadgeChanges(state, tabId, hasAd)
  THEN [text EXCEPT ![tabId] = IF hasAd THEN "AD" ELSE ""]
  ELSE text

\* faulty variant: an activation exactly 5 seconds after the last count is counted
ShouldCount_AtWindowEdge(lastCounted, tabId, adId, t) ==
  \/ tabId \notin DOMAIN lastCounted
  \/ lastCounted[tabId].adId # adId
  \/ (t - lastCounted[tabId].timestamp) >= AD_DEDUP_MS

\* handleAdCounting: the guard of the anti-duplicate window
ShouldCount(lastCounted, tabId, adId, t) ==
  \/ tabId \notin DOMAIN lastCounted
  \/ lastCounted[tabId].adId # adId
  \/ (t - lastCounted[tabId].timestamp) > AD_DEDUP_MS

CountsAd(message, hasAd, lastCounted, tabId, t) ==
  /\ hasAd
  /\ Truthy(message.addebug_videoId)
  /\ message.addebug_videoId # "empty_video"
  /\ ShouldCount(lastCounted, tabId, message.addebug_videoId, t)

\* faulty variant: a video id equal to the record's ad id is counted
VideoCountingStep_CountsAdId(record, hasRecord, lastCountedVideo, processing, tabId) ==
  IF ~hasRecord THEN "skip"
  ELSE IF \/ ~Truthy(record.debug_videoId)
          \/ IdLength(record.debug_videoId) < MIN_VIDEO_ID_LENGTH
       THEN "skip"
  ELSE IF tabId \in DOMAIN lastCountedVideo /\ lastCountedVideo[tabId] = record.debug_videoId
       THEN "skip"
  ELSE IF record.debug_videoId \in processing THEN "mark"
  ELSE "start"

\* handleVideoCounting up to the storage read: "skip", "mark" or "start"
VideoCountingStep(record, hasRecord, lastCountedVideo, processing, tabId) ==
  IF ~hasRecord THEN "skip"
  ELSE IF \/ ~Truthy(record.debug_videoId)
          \/ IdLength(record.debug_videoId) < MIN_VIDEO_ID_LENGTH
          \/ record.debug_videoId = record.addebug_videoId
       THEN "skip"
  ELSE IF tabId \in DOMAIN lastCountedVideo /\ lastCountedVideo[tabId] = record.debug_videoId
       THEN "skip"
  ELSE IF record.debug_videoId \in processing THEN "mark"
  ELSE "start"

\* a queued storage callback; attempt and overlaps are history: the number of the
\* counting attempt and the attempts for the same id in progress when it started
CallbackOf(kind, tabId, id, ts, data, flag, attempt, overlaps) ==
  [kind |-> kind, tab |-> tabId, id |-> id, ts |-> ts, data |-> data, flag |-> flag,
   attempt |-> attempt, overlaps |-> overlaps]

Callback(kind, tabId, id, ts, data, flag) ==
  CallbackOf(kind, tabId, id, ts, data, flag, 0, {})

\* the counting attempts for videoId whose get or set callback is pending
AttemptsInProgress(queue, videoId) ==
  {queue[i].attempt : i \in {j \in 1..Len(queue) :
      queue[j].kind \in {"videoGet", "videoSet"} /\ queue[j].id = videoId}}

NoMessage == [debugText |-> "", adActive |-> FALSE, addebug_videoId |-> Null,
              debug_videoId |-> Null]

DerivedFields(message) ==
  [debugText |-> message.debugText, adActive |-> message.adActive,
   addebug_videoId |-> message.addebug_videoId, debug_videoId |-> message.debug_videoId]

EventOf(kind, tabId, message, applied, count, list, ref, flag) ==
  [kind |-> kind, tab |-> tabId, msg |-> message, applied |-> applied, count |-> count,
   list |-> list, ref |-> ref, flag |-> flag]

Event(kind, tabId, applied, count, list, ref, flag) ==
  EventOf(kind, tabId, NoMessage, applied, count, list, ref, flag)

Entry(id, t) == [id |-> id, timestamp |-> t]

----------------------------------------------------------------------------
(* The coordinator: message handlers, tab events, sweep, storage callbacks *)

\* the page observer before any sampling pass (part_001, module variables), and
\* no classification made yet
ClsInit == [videoPauseTime |-> 0, isVideoPaused |-> FALSE,
            lastVideoContextTime |-> 0, lastVideoContextDuration |-> 0,
            isInAdSequence |-> FALSE, consecutiveAdCount |-> 0,
            called |-> FALSE, adStartTime |-> 0, videoDuration |-> 0,
            referenceTime |-> 0, ended |-> FALSE, readyState |-> 0,
            returned |-> "none", position |-> "none"]

\* adDurationTracker: null until startAdDurationTracking; realDuration is set
\* by stopAdDurationTracking
NoTracker == [exists |-> FALSE, isTracking |-> FALSE, realDuration |-> 0]

NewTracker == [exists |-> TRUE, isTracking |-> TRUE, realDuration |-> 0]

\* the state a sampling pass derives: video id, ad id, ad activity
NoPost == [debug_videoId |-> Null, adActive |-> FALSE, addebug_videoId |-> Null]

\* no ad descriptor (adTypeInfo = null)
NoDescriptor == [type |-> "none", isSkippable |-> FALSE, duration |-> 0,
                 durationDetected |-> FALSE, durationSource |-> "none",
                 position |-> "none", consecutiveAdNumber |-> 0]

NoText == [empty |-> TRUE, number |-> -1]

\* a page without any of the elements detectAdTypeCommon looks for
NoDom == [skipButton |-> FALSE, buttonText |-> NoText, selectorText |-> NoText,
          bodySkipPhrase |-> FALSE, adContainer |-> FALSE,
          timeText |-> [kind |-> "none", value |-> 0],
          hasProgressLabel |-> FALSE, progressLabel |-> 0,
          progressTotal |-> 0, skipEstimate |-> 0]

\* the sources a sampling pass resolves the ad id from: the player
\* configuration's addebug_videoId, the debug text (empty or not, and the token
\* that follows 'addebug_videoId' in it, if any) and the addebug_videoId of
\* ytInitialPlayerResponse
NoSources == [config |-> Null, text |-> [empty |-> TRUE, token |-> Null], response |-> Null]

\* The debounce utility of the page script: debounceCache maps a key to the
\* id of its timer; timers are the timeouts the browser still holds; frames
\* are the callbacks handed to requestAnimationFrame.  A timer id is the
\* index of its trigger in triggers, and 0 stands for a key that is not in
\* debounceCache.  superseded, cancelled and invoked
\* record what became of each trigger.
DebounceKeys == {"debug_check", "video_change"}

NoDebounce == [cache |-> [key \in DebounceKeys |-> 0], timers |-> {},
               triggers |-> <<>>, frames |-> <<>>, clock |-> 0,
               superseded |-> {}, cancelled |-> {}, invoked |-> <<>>]

\* faulty variant: the pending timer of the key is not cleared.
debounce_KeepsOldTimer(db, func, delay, key) ==
  LET old == db.cache[key]
      id == Len(db.triggers) + 1
  IN [db EXCEPT !.timers = @ \cup {id},
                !.cache[key] = id,
                !.triggers = Append(@, [key |-> key, func |-> func, delay |-> delay,
                                        at |-> db.clock]),
                !.superseded = @ \cup ({old} \cap db.timers)]

debounce(db, func, delay, key) ==
  LET old == db.cache[key]
      id == Len(db.triggers) + 1
  IN [db EXCEPT !.timers = (@ \ {old}) \cup {id},
                !.cache[key] = id,
                !.triggers = Append(@, [key |-> key, func |-> func, delay |-> delay,
                                        at |-> db.clock]),
                !.superseded = @ \cup ({old} \cap db.timers)]

\* The callback of the timeout: hands func to requestAnimationFrame and
\* deletes the key from debounceCache.
debounceTimeout(db, id) ==
  [db EXCEPT !.timers = @ \ {id},
             !.frames = Append(@, id),
             !.cache[db.triggers[id].key] = 0]

\* The animation frame callback: func().
debounceFrame(db) ==
  [db EXCEPT !.frames = Tail(@),
             !.invoked = Append(@, [id |-> Head(db.frames),
                                    func |-> db.triggers[Head(db.frames)].func,
                                    at |-> db.clock])]

clearAllDebounces(db) ==
  LET ids == {db.cache[key] : key \in DebounceKeys} \ {0}
  IN [db EXCEPT !.timers = @ \ ids,
                !.cache = [key \in DebounceKeys |-> 0],
                !.cancelled = @ \cup (ids \cap db.timers)]

\* The page observer: lastDebugVideoId, lastAdDebugVideoId and
\* adDurationTracker are its variables, retryCount, retryPending and
\* retryDelay the retry timer of the running pass and the delay it was set
\* with, typeRetry the timer of the second type
\* detection.  History: pass, ready, posted (what the last pass did),
\* lastPosted (the record posted last), repeated (the last post repeated the
\* record posted before it), descriptor (the last descriptor built), dom (the
\* ad elements of the page as last read), bestSource (what getBestAdDuration
\* answered), caught (the descriptor came from the catch branch), run
\* (ads in the current unbroken sequence), runRef and runPosition (time and
\* duration the first ad of the sequence was positioned with, and its
\* position), sameRef (the last ad was positioned with runRef), sources and
\* resolvedAdId (what the ad id was last resolved from, and the result).
ObsInit == [lastDebugVideoId |-> Null, lastAdDebugVideoId |-> Null,
            tracker |-> NoTracker, retryCount |-> 0, retryPending |-> FALSE,
            retryDelay |-> 0,
            typeRetry |-> [pending |-> FALSE, record |-> NoPost],
            pass |-> "none", ready |-> FALSE, posted |-> FALSE,
            lastPosted |-> NoPost, hasPosted |-> FALSE, repeated |-> FALSE,
            descriptor |-> NoDescriptor, dom |-> NoDom, bestSource |-> "none",
            caught |-> FALSE,
            run |-> 0, runRef |-> <<0, 0>>, runPosition |-> "none", sameRef |-> TRUE,
            sources |-> NoSources, resolvedAdId |-> Null,
            debounce |-> NoDebounce]

\* an empty slot of messageBuffer (null)
NoSent == [type |-> "none"]

\* The content script at injection: messageBuffer (lastVideoDebugAll,
\* lastAdDetected, lastAdEnded, lastSentTime) and the variables of
\* checkAdStatus; contextValid: chrome.runtime.sendMessage is there and does
\* not throw.  History: call (the last handler), sent (it passed a message to
\* chrome.runtime.sendMessage), lastSent (the message of each type passed
\* last), resent (the message passed last equals the one of its type passed
\* before), previousAt (time of the send before the last), nSent (sends, up
\* to 2), absentChecks (checks in a row that found no ad id while an ad was
\* announced).
CsInit == [lastVideoDebugAll |-> NoSent, lastAdDetected |-> NoSent, lastAdEnded |-> NoSent,
           lastSentTime |-> 0, contextValid |-> TRUE,
           lastAdDebugId |-> Null, lastAdState |-> FALSE, stableAdCheckCount |-> 0,
           call |-> "none", sent |-> FALSE,
           lastSent |-> [VIDEO_DEBUG_ALL |-> NoSent, AD_DETECTED |-> NoSent,
                         AD_ENDED |-> NoSent],
           resent |-> FALSE, previousAt |-> 0, nSent |-> 0,
           absentChecks |-> 0]

WorkerStart(storedAds, storedVideos) ==
  /\ now = StartTime
  /\ debugDataByTab = EmptyMap
  /\ lastCountedVideoIdByTab = EmptyMap
  /\ lastAdStateByTab = EmptyMap
  /\ lastCountedAdIdByTab = EmptyMap
  /\ globalVideoProcessing = {}
  /\ badge = [t \in Tabs |-> ""]
  /\ adTimestamps = storedAds
  /\ videoTimestamps = storedVideos
  /\ pending = <<>>
  /\ lastEvent = Event("init", 0, FALSE, 0, <<>>, 0, FALSE)
  /\ adCounted = <<>>
  /\ videoPushed = <<>>
  /\ nEvents = 0
  /\ ticks = 0
  /\ clears = 0
  /\ sinceReset = "never"

\* first start: chrome.storage.local holds neither collection
CoordInit == WorkerStart(<<>>, <<>>)

Init == CoordInit /\ cls = ClsInit /\ obs = ObsInit /\ cs = CsInit

\* Date.now() advances
Tick(d) ==
  /\ now' = now + d
  /\ ticks' = ticks + 1
  /\ UNCHANGED <<debugDataByTab, lastCountedVideoIdByTab, lastAdStateByTab,
                 lastCountedAdIdByTab, globalVideoProcessing, badge, adTimestamps,
                 videoTimestamps, pending, lastEvent, adCounted, videoPushed,
                 nEvents, clears, sinceReset, cls, obs, cs>>

\* onMessage VIDEO_DEBUG_ALL with its calls updateTabData, updateBadge,
\* handleAdCounting -> saveAdTimestamp (the get) and handleVideoCounting (the get)
HandleVideoDebugAll(tabId, message) ==
  /\ LET hasAd == HasAd(message)
         hasRecord == tabId \in DOMAIN debugDataByTab
         current == IF hasRecord THEN debugDataByTab[tabId] ELSE createEmptyTabData(now)
         adStateChanged == AdStateChanged(message, hasRecord, current)
         shouldUpdateData == ShouldUpdateData(message, hasRecord, current, current)
         record == IF shouldUpdateData THEN updateTabData(message, hasAd, now) ELSE current
         counting == shouldUpdateData /\ adStateChanged
         counts == counting /\ CountsAd(message, hasAd, lastCountedAdIdByTab, tabId, now)
         adGet == IF counts
                  THEN <<Callback("adGet", tabId, message.addebug_videoId, now, adTimestamps, FALSE)>>
                  ELSE <<>>
         step == VideoCountingStep(record, TRUE, lastCountedVideoIdByTab,
                                   globalVideoProcessing, tabId)
         videoGet == IF step = "start"
                     THEN <<CallbackOf("videoGet", tabId, record.debug_videoId, now, videoTimestamps,
                                      FALSE, nEvents + 1,
                                      AttemptsInProgress(pending, record.debug_videoId))>>
                     ELSE <<>>
     IN
       /\ debugDataByTab' = MapPut(debugDataByTab, tabId, record)
       /\ lastAdStateByTab' = IF counting THEN updateBadgeState(lastAdStateByTab, tabId, hasAd)
                              ELSE lastAdStateByTab
       /\ badge' = IF counting THEN updateBadgeText(lastAdStateByTab, badge, tabId, hasAd)
                   ELSE badge
       /\ lastCountedAdIdByTab' =
            IF counts
            THEN MapPut(lastCountedAdIdByTab, tabId,
                        [adId |-> message.addebug_videoId, timestamp |-> now])
            ELSE lastCountedAdIdByTab
       /\ adCounted' = IF counts
                       THEN Append(adCounted, [tab |-> tabId, id |-> message.addebug_videoId,
                                               timestamp |-> now, clears |-> clears])
                       ELSE adCounted
       /\ lastCountedVideoIdByTab' =
            IF step = "mark" THEN MapPut(lastCountedVideoIdByTab, tabId, record.debug_videoId)
            ELSE lastCountedVideoIdByTab
       /\ globalVideoProcessing' =
            IF step = "start" THEN globalVideoProcessing \cup {record.debug_videoId}
            ELSE globalVideoProcessing
       /\ pending' = pending \o adGet \o videoGet
       /\ lastEvent' = EventOf("VIDEO_DEBUG_ALL", tabId, DerivedFields(message),
                               shouldUpdateData, 0, <<>>, now, counts)
  /\ nEvents' = nEvents + 1
  /\ sinceReset' = IF sinceReset = "acked" THEN "stale" ELSE sinceReset
  /\ UNCHANGED <<now, adTimestamps, videoTimestamps, videoPushed, ticks, clears>>

\* the handler alone: the page observer and the content script do not move
VideoDebugAll(tabId, message) ==
  /\ HandleVideoDebugAll(tabId, message)
  /\ UNCHANGED <<cls, obs, cs>>

\* onMessage AD_DETECTED
AdDetected(tabId) ==
  /\ lastAdStateByTab' = updateBadgeState(lastAdStateByTab, tabId, TRUE)
  /\ badge' = updateBadgeText(lastAdStateByTab, badge, tabId, TRUE)
  /\ lastEvent' = Event("AD_DETECTED", tabId, FALSE, 0, <<>>, now, FALSE)
  /\ nEvents' = nEvents + 1
  /\ UNCHANGED <<now, debugDataByTab, lastCountedVideoIdByTab, lastCountedAdIdByTab,
                 globalVideoProcessing, adTimestamps, videoTimestamps, pending,
                 adCounted, videoPushed, ticks, clears, sinceReset, cls, obs, cs>>

\* faulty variant: the ad id survives AD_ENDED
AdEndedRecord_KeepsAdId(hasRecord, current) ==
  IF hasRecord
  THEN [current EXCEPT !.adActive = FALSE]
  ELSE [debugText |-> Undefined, adActive |-> FALSE, addebug_videoId |-> Undefined,
        debug_videoId |-> Undefined, lastUpdate |-> 0]

\* the record AD_ENDED leaves: the spread keeps the other fields, which are
\* undefined when the tab had no record
AdEndedRecord(hasRecord, current) ==
  IF hasRecord
  THEN [current EXCEPT !.adActive = FALSE, !.addebug_videoId = Null]
  ELSE [debugText |-> Undefined, adActive |-> FALSE, addebug_videoId |-> Null,
        debug_videoId |-> Undefined, lastUpdate |-> 0]

\* onMessage AD_ENDED
AdEnded(tabId) ==
  /\ lastAdStateByTab' = updateBadgeState(lastAdStateByTab, tabId, FALSE)
  /\ badge' = updateBadgeText(lastAdStateByTab, badge, tabId, FALSE)
  /\ debugDataByTab' =
       MapPut(debugDataByTab, tabId,
              AdEndedRecord(tabId \in DOMAIN debugDataByTab,
                            IF tabId \in DOMAIN debugDataByTab THEN debugDataByTab[tabId]
                            ELSE createEmptyTabData(now)))
  /\ lastEvent' = Event("AD_ENDED", tabId, FALSE, 0, <<>>, now, FALSE)
  /\ nEvents' = nEvents + 1
  /\ UNCHANGED <<now, lastCountedVideoIdByTab, lastCountedAdIdByTab,
                 globalVideoProcessing, adTimestamps, videoTimestamps, pending,
                 adCounted, videoPushed, ticks, clears, sinceReset, cls, obs, cs>>

\* onMessage GET_ADS_LAST_24H up to the storage read
GetAdsLast24h ==
  /\ pending' = Append(pending, Callback("getAds", 0, Null, now, adTimestamps,
                                         sinceReset = "acked"))
  /\ lastEvent' = Event("GET_ADS_LAST_24H", 0, FALSE, 0, <<>>, now, sinceReset = "acked")
  /\ nEvents' = nEvents + 1
  /\ UNCHANGED <<now, debugDataByTab, lastCountedVideoIdByTab, lastAdStateByTab,
                 lastCountedAdIdByTab, globalVideoProcessing, badge, adTimestamps,
                 videoTimestamps, adCounted, videoPushed, ticks, clears, sinceReset, cls, obs, cs>>

\* onMessage GET_VIDEOS_LAST_24H up to the storage read
GetVideosLast24h ==
  /\ pending' = Append(pending, Callback("getVideos", 0, Null, now, videoTimestamps,
                                         sinceReset = "acked"))
  /\ lastEvent' = Event("GET_VIDEOS_LAST_24H", 0, FALSE, 0, <<>>, now, sinceReset = "acked")
  /\ nEvents' = nEvents + 1
  /\ UNCHANGED <<now, debugDataByTab, lastCountedVideoIdByTab, lastAdStateByTab,
                 lastCountedAdIdByTab, globalVideoProcessing, badge, adTimestamps,
                 videoTimestamps, adCounted, videoPushed, ticks, clears, sinceReset, cls, obs, cs>>

\* onMessage RESET_COUNTERS: the set of both collections is issued
ResetCounters ==
  /\ adTimestamps' = <<>>
  /\ videoTimestamps' = <<>>
  /\ pending' = Append(pending, Callback("resetSet", 0, Null, now, <<>>, FALSE))
  /\ lastEvent' = Event("RESET_COUNTERS", 0, FALSE, 0, <<>>, now, FALSE)
  /\ nEvents' = nEvents + 1
  /\ sinceReset' = "requested"
  /\ UNCHANGED <<now, debugDataByTab, lastCountedVideoIdByTab, lastAdStateByTab,
                 lastCountedAdIdByTab, globalVideoProcessing, badge,
                 adCounted, videoPushed, ticks, clears, cls, obs, cs>>

----------------------------------------------------------------------------
(* Storage callbacks, run in the order the requests were issued *)

HeadIs(kind) == pending # <<>> /\ Head(pending).kind = kind

\* faulty variant: the new entry is pushed onto the list as it was read
SaveAdList_Unpruned(data, adId, timestamp) ==
  Append(data, Entry(adId, timestamp))

\* saveAdTimestamp, callback of the get: prune, push, issue the set
SaveAdList(data, adId, timestamp) ==
  Append(SelectWithin(data, timestamp), Entry(adId, timestamp))

SaveAdTimestampRead ==
  /\ HeadIs("adGet")
  /\ LET cb == Head(pending)
         timestamps == SaveAdList(cb.data, cb.id, cb.ts)
     IN /\ adTimestamps' = timestamps
        /\ pending' = Append(Tail(pending),
                             Callback("adSet", cb.tab, cb.id, cb.ts, timestamps, FALSE))
        /\ lastEvent' = Event("write_adTimestamps", cb.tab, FALSE, 0, timestamps, cb.ts, FALSE)
  /\ UNCHANGED <<now, debugDataByTab, lastCountedVideoIdByTab, lastAdStateByTab,
                 lastCountedAdIdByTab, globalVideoProcessing, badge, videoTimestamps,
                 adCounted, videoPushed, nEvents, ticks, clears, sinceReset, cls, obs, cs>>

\* saveAdTimestamp, callback of the set: AD_COUNT_UPDATED
SaveAdTimestampWritten ==
  /\ HeadIs("adSet")
  /\ LET cb == Head(pending)
     IN lastEvent' = Event("AD_COUNT_UPDATED", cb.tab, FALSE, Len(cb.data), cb.data, cb.ts, FALSE)
  /\ pending' = Tail(pending)
  /\ UNCHANGED <<now, debugDataByTab, lastCountedVideoIdByTab, lastAdStateByTab,
                 lastCountedAdIdByTab, globalVideoProcessing, badge, adTimestamps,
                 videoTimestamps, adCounted, videoPushed, nEvents, ticks, clears,
                 sinceReset, cls, obs, cs>>

\* handleVideoCounting: timestamps.find(...)
ExistingEntry(data, videoId, t) ==
  \E i \in 1..Len(data) :
    data[i].id = videoId /\ (t - data[i].timestamp) <= DAY_MS

\* handleVideoCounting, callback of the get
VideoCountingRead ==
  /\ HeadIs("videoGet")
  /\ LET cb == Head(pending)
         timestamps == Append(SelectWithin(cb.data, now), Entry(cb.id, now))
     IN IF ~ExistingEntry(cb.data, cb.id, now)
        THEN /\ lastCountedVideoIdByTab' = MapPut(lastCountedVideoIdByTab, cb.tab, cb.id)
             /\ videoTimestamps' = timestamps
             /\ videoPushed' = Append(videoPushed, [tab |-> cb.tab, id |-> cb.id,
                                                    timestamp |-> now,
                                                    attempt |-> cb.attempt,
                                                    overlaps |-> cb.overlaps])
             /\ pending' = Append(Tail(pending),
                                  CallbackOf("videoSet", cb.tab, cb.id, now, timestamps,
                                             FALSE, cb.attempt, cb.overlaps))
             /\ lastEvent' = Event("write_videoTimestamps", cb.tab, TRUE, 0, timestamps, now, FALSE)
             /\ UNCHANGED globalVideoProcessing
        ELSE /\ lastCountedVideoIdByTab' = MapPut(lastCountedVideoIdByTab, cb.tab, cb.id)
             /\ globalVideoProcessing' = globalVideoProcessing \ {cb.id}
             /\ pending' = Tail(pending)
             /\ lastEvent' = Event("video_exists", cb.tab, FALSE, 0, <<>>, now, FALSE)
             /\ UNCHANGED <<videoTimestamps, videoPushed>>
  /\ UNCHANGED <<now, debugDataByTab, lastAdStateByTab, lastCountedAdIdByTab, badge,
                 adTimestamps, adCounted, nEvents, ticks, clears, sinceReset, cls, obs, cs>>

\* handleVideoCounting, callback of the set: VIDEO_COUNT_UPDATED, guard released
VideoCountingWritten ==
  /\ HeadIs("videoSet")
  /\ LET cb == Head(pending)
     IN /\ lastEvent' = Event("VIDEO_COUNT_UPDATED", cb.tab, FALSE,
                              Cardinality(UniqueIds(cb.data)), cb.data, cb.ts, FALSE)
        /\ globalVideoProcessing' = globalVideoProcessing \ {cb.id}
  /\ pending' = Tail(pending)
  /\ UNCHANGED <<now, debugDataByTab, lastCountedVideoIdByTab, lastAdStateByTab,
                 lastCountedAdIdByTab, badge, adTimestamps, videoTimestamps,
                 adCounted, videoPushed, nEvents, ticks, clears, sinceReset, cls, obs, cs>>

\* RESET_COUNTERS, callback of the set: tracking cleared, {success: true}
ResetDone ==
  /\ HeadIs("resetSet")
  /\ lastCountedVideoIdByTab' = EmptyMap
  /\ lastCountedAdIdByTab' = EmptyMap
  /\ globalVideoProcessing' = {}
  /\ clears' = IF lastCountedAdIdByTab' # lastCountedAdIdByTab THEN clears + 1 ELSE clears
  /\ sinceReset' = "acked"
  /\ lastEvent' = Event("RESET_DONE", 0, TRUE, 0, <<>>, now, FALSE)
  /\ pending' = Tail(pending)
  /\ UNCHANGED <<now, debugDataByTab, lastAdStateByTab, badge, adTimestamps,
                 videoTimestamps, adCounted, videoPushed, nEvents, ticks, cls, obs, cs>>

\* the count GET_ADS_LAST_24H answers with
AdsCount(last24h) == Len(last24h)

\* GET_ADS_LAST_24H, callback of the get: prune, write back, respond
GetAdsDone ==
  /\ HeadIs("getAds")
  /\ LET cb == Head(pending)
         last24h == SelectWithin(cb.data, cb.ts)
     IN /\ adTimestamps' = last24h
        /\ lastEvent' = EventOf("ADS_RESPONSE", 0, NoMessage, FALSE, AdsCount(last24h),
                                cb.data, cb.ts, cb.flag)
  /\ pending' = Tail(pending)
  /\ UNCHANGED <<now, debugDataByTab, lastCountedVideoIdByTab, lastAdStateByTab,
                 lastCountedAdIdByTab, globalVideoProcessing, badge, videoTimestamps,
                 adCounted, videoPushed, nEvents, ticks, clears, sinceReset, cls, obs, cs>>

\* the count GET_VIDEOS_LAST_24H answers with: new Set(last24h.map(videoId)).size
\* faulty variant: the entries are counted instead of the distinct ids
VideosCount_Entries(last24h) == Len(last24h)

VideosCount(last24h) == Cardinality(UniqueIds(last24h))

\* GET_VIDEOS_LAST_24H, callback of the get: prune, count unique ids, write back
GetVideosDone ==
  /\ HeadIs("getVideos")
  /\ LET cb == Head(pending)
         last24h == SelectWithin(cb.data, cb.ts)
     IN /\ videoTimestamps' = last24h
        /\ lastEvent' = EventOf("VIDEOS_RESPONSE", 0, NoMessage, FALSE, VideosCount(last24h),
                                cb.data, cb.ts, cb.flag)
  /\ pending' = Tail(pending)
  /\ UNCHANGED <<now, debugDataByTab, lastCountedVideoIdByTab, lastAdStateByTab,
                 lastCountedAdIdByTab, globalVideoProcessing, badge, adTimestamps,
                 adCounted, videoPushed, nEvents, ticks, clears, sinceReset, cls, obs, cs>>

----------------------------------------------------------------------------
(* Tab events and the periodic sweep *)

\* cleanupTabData: an entry is deleted only when its value is truthy
DeleteIfTruthyState(state, tabId) ==
  IF tabId \in DOMAIN state /\ state[tabId] THEN MapRemove(state, tabId) ELSE state

\* history: the storage reads of handleVideoCounting pending for a tab are marked
\* when the tab is closed
MarkClosed(queue, tabId) ==
  [i \in 1..Len(queue) |->
     IF queue[i].kind = "videoGet" /\ queue[i].tab = tabId
     THEN [queue[i] EXCEPT !.flag = TRUE] ELSE queue[i]]

\* tabs.onRemoved -> cleanupTabData, which ends with updateBadge(tabId, false)
TabRemoved(tabId) ==
  /\ debugDataByTab' = MapRemove(debugDataByTab, tabId)
  /\ lastCountedVideoIdByTab' = MapRemove(lastCountedVideoIdByTab, tabId)
  /\ lastCountedAdIdByTab' = MapRemove(lastCountedAdIdByTab, tabId)
  /\ LET state == DeleteIfTruthyState(lastAdStateByTab, tabId)
     IN /\ lastAdStateByTab' = updateBadgeState(state, tabId, FALSE)
        /\ badge' = updateBadgeText(state, badge, tabId, FALSE)
  /\ clears' = IF lastCountedAdIdByTab' # lastCountedAdIdByTab THEN clears + 1 ELSE clears
  /\ lastEvent' = Event("TAB_REMOVED", tabId, FALSE, 0, <<>>, now, FALSE)
  /\ nEvents' = nEvents + 1
  /\ pending' = MarkClosed(pending, tabId)
  /\ UNCHANGED <<now, globalVideoProcessing, adTimestamps, videoTimestamps,
                 adCounted, videoPushed, ticks, sinceReset, cls, obs, cs>>

\* tabs.onUpdated with status 'loading'
TabLoading(tabId) ==
  /\ lastAdStateByTab' = updateBadgeState(lastAdStateByTab, tabId, FALSE)
  /\ badge' = updateBadgeText(lastAdStateByTab, badge, tabId, FALSE)
  /\ lastEvent' = Event("TAB_LOADING", tabId, FALSE, 0, <<>>, now, FALSE)
  /\ nEvents' = nEvents + 1
  /\ UNCHANGED <<now, debugDataByTab, lastCountedVideoIdByTab, lastCountedAdIdByTab,
                 globalVideoProcessing, adTimestamps, videoTimestamps, pending,
                 adCounted, videoPushed, ticks, clears, sinceReset, cls, obs, cs>>

\* cleanupMemory: data.lastUpdate || now, and the rank of a record in the
\* descending stable sort (integer keys are enumerated in ascending order)
SortKey(data, t, tabId) == IF data[tabId].lastUpdate = 0 THEN t ELSE data[tabId].lastUpdate

SortRank(data, t, tabId) ==
  Cardinality({u \in DOMAIN data :
                 \/ SortKey(data, t, u) > SortKey(data, t, tabId)
                 \/ (SortKey(data, t, u) = SortKey(data, t, tabId) /\ u < tabId)})

\* faulty variant: the sort is ascending, the oldest records are kept
CapEntries_KeepsOldest(data, t) ==
  IF Cardinality(DOMAIN data) > MAX_ENTRIES
  THEN [u \in {x \in DOMAIN data :
                 SortRank(data, t, x) >= Cardinality(DOMAIN data) - MAX_ENTRIES} |-> data[u]]
  ELSE data

CapEntries(data, t) ==
  IF Cardinality(DOMAIN data) > MAX_ENTRIES
  THEN [u \in {x \in DOMAIN data : SortRank(data, t, x) < MAX_ENTRIES} |-> data[u]]
  ELSE data

\* now - (debugDataByTab[tabId]?.lastUpdate || 0) > maxAge
IsStale(data, t, tabId) ==
  (t - (IF tabId \in DOMAIN data THEN data[tabId].lastUpdate ELSE 0)) > MAX_AGE

\* MEMORY_MONITOR.forceCleanup: every in-memory map is cleared
ForceCleanup ==
  /\ debugDataByTab' = EmptyMap
  /\ lastCountedVideoIdByTab' = EmptyMap
  /\ lastAdStateByTab' = EmptyMap
  /\ lastCountedAdIdByTab' = EmptyMap
  /\ globalVideoProcessing' = {}
  /\ clears' = IF lastCountedAdIdByTab' # lastCountedAdIdByTab THEN clears + 1 ELSE clears
  /\ lastEvent' = Event("FORCE_CLEANUP", 0, FALSE, 0, <<>>, now, FALSE)
  /\ nEvents' = nEvents + 1
  /\ UNCHANGED <<now, badge, adTimestamps, videoTimestamps, pending,
                 adCounted, videoPushed, ticks, sinceReset, cls, obs, cs>>

\* cleanupMemory when checkMemoryUsage() is false
CleanupMemory ==
  /\ \E capped \in {CapEntries(debugDataByTab, now)} :
     LET staleKeys == {u \in DOMAIN lastCountedVideoIdByTab : IsStale(capped, now, u)}
     IN /\ debugDataByTab' = [u \in {x \in DOMAIN capped : ~IsStale(capped, now, x)} |-> capped[u]]
        /\ lastCountedVideoIdByTab' =
             [u \in DOMAIN lastCountedVideoIdByTab \ staleKeys |-> lastCountedVideoIdByTab[u]]
        /\ lastCountedAdIdByTab' =
             [u \in DOMAIN lastCountedAdIdByTab \ staleKeys |-> lastCountedAdIdByTab[u]]
  /\ globalVideoProcessing' =
       IF Cardinality(globalVideoProcessing) > MAX_PROCESSING THEN {} ELSE globalVideoProcessing
  /\ clears' = IF lastCountedAdIdByTab' # lastCountedAdIdByTab THEN clears + 1 ELSE clears
  /\ lastEvent' = Event("CLEANUP_MEMORY", 0, FALSE, Cardinality(DOMAIN debugDataByTab),
                        <<>>, now, FALSE)
  /\ nEvents' = nEvents + 1
  /\ UNCHANGED <<now, lastAdStateByTab, badge, adTimestamps, videoTimestamps, pending,
                 adCounted, videoPushed, ticks, sinceReset, cls, obs, cs>>

----------------------------------------------------------------------------
(* Specifications.  Spec: every handler of the coordinator in a burst of     *)
(* messages handled within one clock reading.                                *)

BurstEvents ==
  ObservationEvents(DebugTexts, {Null, "ad_AAAAAAAA"}, {Null, "vid_AAAAAAA"})

Next ==
  \/ \E tabId \in Tabs, message \in BurstEvents :
       nEvents < MaxEvents /\ VideoDebugAll(tabId, message)
  \/ \E tabId \in Tabs : nEvents < MaxEvents /\ AdDetected(tabId)
  \/ \E tabId \in Tabs : nEvents < MaxEvents /\ AdEnded(tabId)
  \/ nEvents < MaxEvents /\ GetAdsLast24h
  \/ nEvents < MaxEvents /\ GetVideosLast24h
  \/ nEvents < MaxEvents /\ ResetCounters
  \/ \E tabId \in Tabs : nEvents < MaxEvents /\ TabRemoved(tabId)
  \/ \E tabId \in Tabs : nEvents < MaxEvents /\ TabLoading(tabId)
  \/ nEvents < MaxEvents /\ ForceCleanup
  \/ nEvents < MaxEvents /\ CleanupMemory
  \/ SaveAdTimestampRead
  \/ SaveAdTimestampWritten
  \/ VideoCountingRead
  \/ VideoCountingWritten
  \/ ResetDone
  \/ GetAdsDone
  \/ GetVideosDone

Spec == Init /\ [][Next]_vars

----------------------------------------------------------------------------
(* Claims about the coordinator, checked under Spec *)

\* the derived fields of the event differ from the tab's current record
\* (a tab without a record has no content to agree with)
ContentDiffers(tabId, message) ==
  \/ tabId \notin DOMAIN debugDataByTab
  \/ debugDataByTab[tabId].adActive # message.adActive
  \/ debugDataByTab[tabId].addebug_videoId # message.addebug_videoId
  \/ debugDataByTab[tabId].debug_videoId # message.debug_videoId
  \/ debugDataByTab[tabId].debugText # message.debugText

HandledObservation == lastEvent'.kind = "VIDEO_DEBUG_ALL" /\ nEvents' = nEvents + 1

\* C1: an Observation Event is applied (updateTabData) exactly when its derived
\* fields (ad activity, ad id, video id, debug text) differ from the tab's current
\* record; an event with the record's content leaves every record as it was, so
\* re-delivering an event applies no transition.
C1_AppliedIffContentDiffers ==
  [][HandledObservation =>
       /\ lastEvent'.applied <=> ContentDiffers(lastEvent'.tab, lastEvent'.msg)
       /\ lastEvent'.applied =>
            DerivedFields(debugDataByTab'[lastEvent'.tab]) = lastEvent'.msg
       /\ ~lastEvent'.applied => debugDataByTab' = debugDataByTab]_vars

\* C1 witness: an event was re-delivered with the content of the record and
\* no transition was applied
C1_Witness ==
  /\ lastEvent.kind = "VIDEO_DEBUG_ALL"
  /\ ~lastEvent.applied
  /\ nEvents >= 2
  /\ lastEvent.msg.debugText = "dbg"
  /\ lastEvent.msg.adActive

CountEntries(list, e) == Cardinality({i \in 1..Len(list) : list[i] = e})

CountCounted(id, t) ==
  Cardinality({i \in 1..Len(adCounted) :
                 adCounted[i].id = id /\ adCounted[i].timestamp = t})

\* C3 (as claimed): once every storage callback has run, every ad activation that
\* passed the guard of handleAdCounting has its own entry in the persisted ad
\* collection (no reset requested, no entry older than 24 hours).
C3_EveryCountedAdIsPersisted ==
  (pending = <<>> /\ sinceReset = "never") =>
    \A i \in 1..Len(adCounted) :
      (now - adCounted[i].timestamp) <= DAY_MS =>
        CountEntries(adTimestamps, Entry(adCounted[i].id, adCounted[i].timestamp))
          >= CountCounted(adCounted[i].id, adCounted[i].timestamp)

\* C5 (as claimed): a GET_ADS_LAST_24H or GET_VIDEOS_LAST_24H issued after the
\* acknowledgement of RESET_COUNTERS, with no Observation Event in between,
\* answers count 0.
C5_ResetThenQueriesAnswerZero ==
  (lastEvent.kind \in {"ADS_RESPONSE", "VIDEOS_RESPONSE"} /\ lastEvent.flag)
    => lastEvent.count = 0

\* C7 (as claimed): of two counting attempts for the same video id that are in
\* progress at the same time, only one appends an entry.
C7_OverlappingAttemptsPushOnce ==
  \A i, j \in 1..Len(videoPushed) :
    (i # j /\ videoPushed[i].id = videoPushed[j].id)
      => videoPushed[i].attempt \notin videoPushed[j].overlaps

----------------------------------------------------------------------------
(* SpecAds: ad activations of two tabs against the clock *)

AdEvents == ObservationEvents({"dbg"}, {Null} \cup AdIds, {Null})
AdTimeSteps == {AD_DEDUP_MS, AD_DEDUP_MS + 1}

NextAds ==
  \/ \E d \in AdTimeSteps : ticks < MaxAdTicks /\ Tick(d)
  \/ \E tabId \in Tabs, message \in AdEvents :
       nEvents < MaxAdEvents /\ VideoDebugAll(tabId, message)
  \/ \E tabId \in Tabs : nEvents < MaxAdEvents /\ AdEnded(tabId)
  \/ nEvents < MaxAdEvents /\ ForceCleanup
  \/ SaveAdTimestampRead
  \/ SaveAdTimestampWritten

SpecAds == Init /\ [][NextAds]_vars

ConsecutiveCounts(i, j) ==
  /\ i < j
  /\ adCounted[i].tab = adCounted[j].tab
  /\ adCounted[i].id = adCounted[j].id
  /\ adCounted[i].clears = adCounted[j].clears
  /\ \A k \in (i + 1)..(j - 1) :
       adCounted[k].tab = adCounted[i].tab => adCounted[k].id = adCounted[i].id

----------------------------------------------------------------------------
(* SpecCounters: both rolling-window collections across the 24-hour limit *)

CounterEvents == ObservationEvents({"dbg"}, {Null, "ad_AAAAAAAA"}, {Null, "vid_AAAAAAA"})
CounterTimeSteps == {DAY_MS, DAY_MS + 1}

NextCounters ==
  \/ \E d \in CounterTimeSteps : ticks < MaxCounterTicks /\ Tick(d)
  \/ \E tabId \in Tabs, message \in CounterEvents :
       nEvents < MaxCounterEvents /\ VideoDebugAll(tabId, message)
  \/ nEvents < MaxCounterEvents /\ GetAdsLast24h
  \/ nEvents < MaxCounterEvents /\ GetVideosLast24h
  \/ nEvents < MaxCounterEvents /\ ResetCounters
  \/ SaveAdTimestampRead
  \/ SaveAdTimestampWritten
  \/ VideoCountingRead
  \/ VideoCountingWritten
  \/ ResetDone
  \/ GetAdsDone
  \/ GetVideosDone

SpecCounters == Init /\ [][NextCounters]_vars

\* no entry of the list is older than 24 hours at the reference time
Fresh(list, ref) == \A i \in 1..Len(list) : (ref - list[i].timestamp) <= DAY_MS

FreshIndexes(list, ref) == {i \in 1..Len(list) : (ref - list[i].timestamp) <= DAY_MS}

\* C6: every count the coordinator reports (query responses, AD_COUNT_UPDATED,
\* VIDEO_COUNT_UPDATED) counts only entries at most 24 hours old, and every list
\* it writes to the two collections holds no entry older than 24 hours; ages
\* are taken at the clock reading the handler prunes with.
C6_ReportsAndWritesAreFresh ==
  /\ lastEvent.kind = "write_adTimestamps" =>
       (adTimestamps = lastEvent.list /\ Fresh(adTimestamps, lastEvent.ref))
  /\ lastEvent.kind = "write_videoTimestamps" =>
       (videoTimestamps = lastEvent.list /\ Fresh(videoTimestamps, lastEvent.ref))
  /\ lastEvent.kind = "AD_COUNT_UPDATED" =>
       (Fresh(lastEvent.list, lastEvent.ref) /\ lastEvent.count = Len(lastEvent.list))
  /\ lastEvent.kind = "VIDEO_COUNT_UPDATED" =>
       /\ Fresh(lastEvent.list, lastEvent.ref)
       /\ lastEvent.count = Cardinality({lastEvent.list[i].id : i \in 1..Len(lastEvent.list)})
  /\ lastEvent.kind = "ADS_RESPONSE" =>
       /\ Fresh(adTimestamps, lastEvent.ref)
       /\ lastEvent.count = Cardinality(FreshIndexes(lastEvent.list, lastEvent.ref))
  /\ lastEvent.kind = "VIDEOS_RESPONSE" =>
       /\ Fresh(videoTimestamps, lastEvent.ref)
       /\ lastEvent.count =
            Cardinality({lastEvent.list[i].id : i \in FreshIndexes(lastEvent.list, lastEvent.ref)})
  /\ lastEvent.kind = "RESET_DONE" => lastEvent.count = 0

\* C6 witness: a query found an entry older than 24 hours in the stored list,
\* left it out of the count and wrote the list back without it
C6_Witness ==
  /\ lastEvent.kind = "ADS_RESPONSE"
  /\ ~Fresh(lastEvent.list, lastEvent.ref)
  /\ Len(adTimestamps) < Len(lastEvent.list)

----------------------------------------------------------------------------
(* SpecQuery: the service worker starts over a videoTimestamps list kept in
   chrome.storage.local by earlier runs; entries are in push order *)

StoredAges == {DAY_MS + 1, DAY_MS, 1}
StoredEntries == {Entry(id, StartTime - age) : id \in VideoIds, age \in StoredAges}

StoredVideoLists ==
  UNION {{list \in [1..n -> StoredEntries] :
            \A i \in 1..n, j \in 1..n : i < j => list[i].timestamp <= list[j].timestamp}
         : n \in 0..MaxStored}

InitQuery ==
  /\ \E list \in StoredVideoLists : WorkerStart(<<>>, list)
  /\ cls = ClsInit /\ obs = ObsInit /\ cs = CsInit

NextQuery ==
  \/ ticks < MaxQueryTicks /\ Tick(1)
  \/ nEvents < MaxQueryEvents /\ GetVideosLast24h
  \/ GetVideosDone

SpecQuery == InitQuery /\ [][NextQuery]_vars

\* C4: the count answered to GET_VIDEOS_LAST_24H is the number of distinct
\* video ids among the stored entries whose timestamp is within 24 hours of the
\* time of the query
C4_CountIsDistinctRecentIds ==
  lastEvent.kind = "VIDEOS_RESPONSE" =>
    lastEvent.count =
      Cardinality({id \in VideoIds :
                     \E i \in 1..Len(lastEvent.list) :
                        /\ lastEvent.list[i].id = id
                        /\ lastEvent.ref - lastEvent.list[i].timestamp <= DAY_MS})

\* C4 witness: the stored list held an expired entry and two recent entries of
\* one id; the answer was 1
C4_Witness ==
  /\ lastEvent.kind = "VIDEOS_RESPONSE"
  /\ lastEvent.count = 1
  /\ Len(lastEvent.list) = 3
  /\ Len(videoTimestamps) = 2
  /\ lastEvent.list[1].id # lastEvent.list[2].id

----------------------------------------------------------------------------
(* The page observer's position context and the position classifier.
   Times and durations are whole seconds.  The page is an input of every
   pass: the video element (or its absence) and what the player exposes
   (videoDetails.lengthSeconds, the progress bar, ytplayer.config.args.t). *)

MIN_DURATION == 30
NEAR_START_SEC == 10
HAVE_ENOUGH_DATA == 4
MIN_ELEMENT_DURATION == 60

PlaybackTimes == {0, 2, 10, 11, 20, 36}
Durations == {0, 29, 30, 40, 600}

NoElement == [present |-> FALSE, paused |-> FALSE, currentTime |-> 0, duration |-> 0,
              ended |-> FALSE, readyState |-> 0]

VideoElements ==
  {NoElement} \cup
  [present : {TRUE}, paused : BOOLEAN, currentTime : PlaybackTimes, duration : Durations,
   ended : BOOLEAN, readyState : {1, HAVE_ENOUGH_DATA}]

\* the fields of the video element the sampling pass reads
SampledElements ==
  {element \in VideoElements : ~element.ended /\ element.readyState = 1}

\* lengthSeconds 0: no videoDetails; max 0: no progress bar; argsT 0: no args.t
NoPlayerInfo == [lengthSeconds |-> 0, progress |-> 0, max |-> 0, argsT |-> 0]

PlayerInfos ==
  {NoPlayerInfo,
   [lengthSeconds |-> 40, progress |-> 0, max |-> 0, argsT |-> 0],
   [lengthSeconds |-> 0, progress |-> 20, max |-> 40, argsT |-> 0],
   [lengthSeconds |-> 40, progress |-> 0, max |-> 0, argsT |-> 2]}

resetAdDataVariables(s) ==
  [s EXCEPT !.videoPauseTime = 0, !.isVideoPaused = FALSE, !.isInAdSequence = FALSE]

startAdSequence(s) ==
  IF ~s.isInAdSequence
  THEN resetAdDataVariables([s EXCEPT !.isInAdSequence = TRUE, !.consecutiveAdCount = 0])
  ELSE resetAdDataVariables([s EXCEPT !.consecutiveAdCount = @ + 1])

endAdSequence(s) ==
  resetAdDataVariables([s EXCEPT !.isInAdSequence = FALSE, !.consecutiveAdCount = 0])

updateVideoContext(s, element, currentTime, totalDuration) ==
  LET paused == IF element.present /\ element.paused /\ ~s.isVideoPaused /\ currentTime > 0
                THEN [s EXCEPT !.isVideoPaused = TRUE, !.videoPauseTime = currentTime]
                ELSE s
      resumed == IF element.present /\ ~element.paused /\ paused.isVideoPaused
                 THEN [paused EXCEPT !.isVideoPaused = FALSE]
                 ELSE paused
  IN IF ~resumed.isInAdSequence \/ resumed.consecutiveAdCount = 1
     THEN [resumed EXCEPT !.lastVideoContextTime = currentTime,
                          !.lastVideoContextDuration = totalDuration]
     ELSE resumed

\* detectAdTypeCommon: the total duration it reads from the page
PlayerTotalDuration(element, player) ==
  LET fromProgress == IF player.max > 0 /\ player.lengthSeconds = 0
                      THEN player.max ELSE player.lengthSeconds
      timeBeforeElement == IF player.max > 0 /\ player.progress > 0
                           THEN player.progress ELSE player.argsT
  IN IF timeBeforeElement = 0 /\ element.duration > MIN_ELEMENT_DURATION /\ fromProgress = 0
     THEN element.duration ELSE fromProgress

\* detectAdTypeCommon: the current time it reads from the page
PlayerCurrentTime(element, player) ==
  LET timeBeforeElement == IF player.max > 0 /\ player.progress > 0
                           THEN player.progress ELSE player.argsT
  IN IF timeBeforeElement = 0
     THEN IF element.duration > MIN_ELEMENT_DURATION THEN element.currentTime ELSE 0
     ELSE timeBeforeElement

\* detectAdTypeCommon, as far as it touches the position context; without a
\* duration tracker getBestAdDuration throws before the position is looked at
detectAdTypeCommon(s, element, player, hasTracker) ==
  LET started == startAdSequence(s)
      videoCurrentTime == PlayerCurrentTime(element, player)
      totalDuration == PlayerTotalDuration(element, player)
  IN IF hasTracker /\ element.present /\ videoCurrentTime > 0 /\ totalDuration > 0
     THEN updateVideoContext(started, element, videoCurrentTime, totalDuration)
     ELSE started

\* faulty variant: the check of the minimum duration is left out
detectarPosicionAnuncio_AnyDuration(adStartTime, videoDuration, s, element) ==
  IF ~element.present THEN "unknown"
  ELSE IF adStartTime <= NEAR_START_SEC THEN "pre_roll" ELSE "mid_roll"

\* detectarPosicionAnuncio: besides its two arguments it reads the position
\* context and the video element.  t <= 0.05 d is 20 t <= d, t >= 0.90 d is
\* 10 t >= 9 d, and t / d > 0.85 is 20 t > 17 d.
detectarPosicionAnuncio(adStartTime, videoDuration, s, element) ==
  IF videoDuration = 0 \/ videoDuration < MIN_DURATION THEN "unknown"
  ELSE IF ~element.present THEN "unknown"
  ELSE
    LET referenceTime ==
          IF s.videoPauseTime > 0 THEN s.videoPauseTime
          ELSE IF s.lastVideoContextTime > 0 THEN s.lastVideoContextTime
          ELSE IF adStartTime > 0 THEN adStartTime
          ELSE element.currentTime
        finalVideoDuration == videoDuration
        isVideoEnded == element.ended \/ element.readyState >= HAVE_ENOUGH_DATA
    IN IF 20 * referenceTime <= finalVideoDuration \/ referenceTime <= NEAR_START_SEC
       THEN "pre_roll"
       ELSE IF \/ 10 * referenceTime >= 9 * finalVideoDuration
               \/ isVideoEnded
               \/ 20 * referenceTime > 17 * finalVideoDuration
            THEN "post_roll"
            ELSE "mid_roll"

\* the reference time detectarPosicionAnuncio settles on
ReferenceTime(adStartTime, s, element) ==
  IF s.videoPauseTime > 0 THEN s.videoPauseTime
  ELSE IF s.lastVideoContextTime > 0 THEN s.lastVideoContextTime
  ELSE IF adStartTime > 0 THEN adStartTime
  ELSE element.currentTime

\* executeFullAdDataExtraction, as far as the position is concerned
ExtractionContext(element, player) ==
  LET reset == resetAdDataVariables(cls)
      sequenced == IF reset.consecutiveAdCount = 0
                   THEN startAdSequence(reset)
                   ELSE [reset EXCEPT !.consecutiveAdCount = @ + 1]
  IN \E s \in {detectAdTypeCommon(sequenced, element, player, obs.tracker.exists)} :
       LET videoDuration == IF ~element.present THEN 0
                            ELSE IF s.lastVideoContextDuration > 0
                                 THEN s.lastVideoContextDuration
                                 ELSE element.duration
           adStartTime == IF ~element.present THEN 0
                          ELSE IF s.videoPauseTime > 0 THEN s.videoPauseTime
                          ELSE IF s.lastVideoContextTime > 0 THEN s.lastVideoContextTime
                          ELSE element.currentTime
       IN /\ IF adStartTime > 0 /\ videoDuration > 0
             THEN \E returned \in {detectarPosicionAnuncio(adStartTime, videoDuration, s, element)} :
                    cls' = [s EXCEPT !.called = TRUE,
                                     !.adStartTime = adStartTime,
                                     !.videoDuration = videoDuration,
                                     !.referenceTime = ReferenceTime(adStartTime, s, element),
                                     !.ended = element.ended,
                                     !.readyState = element.readyState,
                                     !.returned = returned,
                                     !.position = returned]
             ELSE cls' = [s EXCEPT !.called = FALSE,
                                   !.adStartTime = adStartTime,
                                   !.videoDuration = videoDuration,
                                   !.referenceTime = 0,
                                   !.ended = element.ended,
                                   !.readyState = element.readyState,
                                   !.returned = "none",
                                   !.position = "unknown"]

\* executeFullAdDataExtraction, as far as it touches the position context
ExecuteFullAdDataExtraction(element, player) ==
  /\ ExtractionContext(element, player)
  /\ UNCHANGED <<coordVars, obs, cs>>

\* trySendDebugInfo: what it does to the position context: capture at a newly
\* detected ad, end of the sequence without an ad, basic type detection
SamplingContext(s, adActive, newAd, element, player, hasTracker) ==
  LET duration == IF element.duration # 0 THEN element.duration
                  ELSE IF player.lengthSeconds > 0 THEN player.lengthSeconds
                  ELSE player.max
      captured == IF adActive /\ newAd
                  THEN resetAdDataVariables(
                         IF element.present
                         THEN [s EXCEPT !.videoPauseTime = element.currentTime,
                                        !.lastVideoContextTime = element.currentTime,
                                        !.lastVideoContextDuration = duration]
                         ELSE s)
                  ELSE s
      ended == IF ~adActive /\ captured.isInAdSequence
               THEN resetAdDataVariables(endAdSequence(captured))
               ELSE captured
  IN IF adActive THEN detectAdTypeCommon(ended, element, player, hasTracker) ELSE ended

\* trySendDebugInfo, as far as it touches the position context.  A newly
\* detected ad starts the duration tracker; an ad seen before has started it.
TrySendDebugInfo(adActive, newAd, element, player) ==
  /\ (adActive /\ ~newAd) => obs.tracker.exists
  /\ \E tracker \in {IF adActive /\ newAd THEN NewTracker ELSE obs.tracker} :
       /\ cls' = SamplingContext(cls, adActive, newAd, element, player, tracker.exists)
       /\ obs' = [obs EXCEPT !.tracker = tracker]
  /\ UNCHANGED <<coordVars, cs>>

\* detectVideoChange on a new watch URL
DetectVideoChange ==
  /\ cls' = [cls EXCEPT !.videoPauseTime = 0, !.isVideoPaused = FALSE]
  /\ UNCHANGED <<coordVars, obs, cs>>

NextClassify ==
  \/ \E element \in VideoElements, player \in PlayerInfos :
       ExecuteFullAdDataExtraction(element, player)
  \/ \E newAd \in BOOLEAN, element \in SampledElements, player \in PlayerInfos :
       TrySendDebugInfo(TRUE, newAd, element, player)
  \/ TrySendDebugInfo(FALSE, FALSE, NoElement, NoPlayerInfo)
  \/ DetectVideoChange

SpecClassify == Init /\ [][NextClassify]_vars

Positions == {"pre_roll", "mid_roll", "post_roll"}

ThresholdPosition(t, d) ==
  IF 20 * t <= d \/ t <= NEAR_START_SEC THEN "pre_roll"
  ELSE IF 10 * t >= 9 * d \/ 20 * t > 17 * d THEN "post_roll"
  ELSE "mid_roll"

\* C9: for a duration of at least 30 and a video that has not ended, the
\* classifier returns pre_roll when t <= max(0.05 d, 10), otherwise post_roll
\* when t >= 0.90 d or t / d > 0.85, otherwise mid_roll (for d = 40: pre_roll at
\* 2, post_roll at 36, mid_roll at 20).
C9_ThresholdsWhenNotEnded ==
  (cls.called /\ cls.videoDuration >= MIN_DURATION /\ ~cls.ended) =>
    cls.returned = ThresholdPosition(cls.referenceTime, cls.videoDuration)

\* C10: two calls of the classifier with the same reference time, duration and
\* ended flag return the same position, whatever the position context holds at
\* each call.
C10_SameInputsSamePosition ==
  [][(/\ cls.called /\ cls'.called
      /\ cls'.referenceTime = cls.referenceTime
      /\ cls'.videoDuration = cls.videoDuration
      /\ cls'.ended = cls.ended)
     => cls'.returned = cls.returned]_vars

----------------------------------------------------------------------------
(* The ad descriptor (adTypeInfo) built by detectAdTypeCommon.  The DOM is an
   input: a skip text is abstracted to whether it is empty and the first
   number in it (-1: no digit); a time text to the form the regular
   expression matched and the number parsed. *)

BUMPER_MAX == 6
SHORT_MAX == 15
MEDIUM_MAX == 30
SKIP_INFERENCE_MAX == 20
ESTIMATED_SKIPPABLE == 30
MAX_AD_DURATION == 300
POSTROLL_TOLERANCE_SEC == 3
LATE_WITHOUT_DURATION == 300

SkipTexts ==
  {NoText, [empty |-> FALSE, number |-> -1]} \cup
  {[empty |-> FALSE, number |-> n] : n \in {4, 6, 7, 16, 21}}

\* kind "none": no element or no match; "clock": m:ss; "seconds": a count of seconds
TimeTexts ==
  {[kind |-> "none", value |-> 0], [kind |-> "clock", value |-> 16],
   [kind |-> "seconds", value |-> 300]}

\* getBestAdDuration; "error" is the TypeError of reading a property of null
getBestAdDuration(tracker, elementDuration, hasElement, progressTotal, skipEstimate) ==
  IF ~tracker.exists THEN [error |-> TRUE, duration |-> 0, isDetected |-> FALSE, source |-> "none"]
  ELSE IF tracker.realDuration > 0
  THEN [error |-> FALSE, duration |-> tracker.realDuration, isDetected |-> TRUE,
        source |-> "real-tracking"]
  ELSE IF hasElement /\ elementDuration > 0 /\ elementDuration < MAX_AD_DURATION
  THEN [error |-> FALSE, duration |-> elementDuration, isDetected |-> TRUE,
        source |-> "video-element"]
  ELSE IF progressTotal > 0
  THEN [error |-> FALSE, duration |-> progressTotal, isDetected |-> TRUE,
        source |-> "progress-total"]
  ELSE IF skipEstimate > 0 /\ skipEstimate < MAX_AD_DURATION
  THEN [error |-> FALSE, duration |-> skipEstimate, isDetected |-> TRUE,
        source |-> "skip-calculation"]
  ELSE [error |-> FALSE, duration |-> 0, isDetected |-> FALSE, source |-> "none"]

\* detectAdTypeCommon: the skip text it settles on
ResolvedSkipText(dom) ==
  IF dom.skipButton /\ ~dom.buttonText.empty THEN dom.buttonText ELSE dom.selectorText

\* detectAdTypeCommon: isSkippable before the duration is looked at
SkippableBeforeDuration(dom) ==
  \/ dom.skipButton
  \/ dom.bodySkipPhrase
  \/ (~ResolvedSkipText(dom).empty /\ ResolvedSkipText(dom).number >= 0)

\* detectAdTypeCommon: duration from the text of the ad time display
DurationFromTimeText(best, timeText) ==
  IF best.duration > 0 \/ timeText.kind = "none"
  THEN [duration |-> best.duration, detected |-> best.duration > 0 /\ best.isDetected,
        source |-> IF best.duration > 0 THEN best.source ELSE "none"]
  ELSE [duration |-> IF timeText.kind = "clock" THEN timeText.value
                     ELSE IF timeText.value > 0 /\ timeText.value < MAX_AD_DURATION
                          THEN timeText.value ELSE 0,
        detected |-> TRUE, source |-> "dom-text"]

\* detectAdTypeCommon: duration from the label of the ad progress bar (0: none)
DurationFromProgressLabel(d, progressLabel, hasLabel) ==
  IF d.duration = 0 /\ hasLabel
  THEN [duration |-> progressLabel, detected |-> TRUE, source |-> "progress-bar"]
  ELSE d

\* detectAdTypeCommon: duration inferred from the countdown of the skip text
DurationFromSkipText(d, skipText) ==
  IF d.duration = 0 /\ ~skipText.empty /\ skipText.number >= 0
  THEN IF skipText.number <= BUMPER_MAX
       THEN [duration |-> BUMPER_MAX, detected |-> TRUE, source |-> "skip-inference",
             skippable |-> TRUE]
       ELSE IF skipText.number <= SHORT_MAX
       THEN [duration |-> SHORT_MAX, detected |-> TRUE, source |-> "skip-inference",
             skippable |-> TRUE]
       ELSE IF skipText.number <= SKIP_INFERENCE_MAX
       THEN [duration |-> SKIP_INFERENCE_MAX, detected |-> TRUE,
             source |-> "skip-inference", skippable |-> TRUE]
       ELSE d @@ [skippable |-> FALSE]
  ELSE d @@ [skippable |-> FALSE]

\* detectAdTypeCommon: the estimate when no duration was found
DurationEstimated(d, isSkippable, adContainer) ==
  IF d.duration = 0
  THEN IF ~isSkippable /\ adContainer
       THEN [duration |-> BUMPER_MAX, detected |-> FALSE, source |-> "estimation"]
       ELSE IF isSkippable
       THEN [duration |-> ESTIMATED_SKIPPABLE, detected |-> FALSE, source |-> "estimation"]
       ELSE [duration |-> 0, detected |-> d.detected, source |-> "estimation"]
  ELSE [duration |-> d.duration, detected |-> d.detected, source |-> d.source]

\* faulty variant: the duration decides before the skip button does
AdTypeOf_DurationFirst(isSkippable, adDuration, adContainer) ==
  IF adDuration > 0
  THEN IF adDuration <= BUMPER_MAX THEN "bumper"
       ELSE IF adDuration <= SHORT_MAX THEN "non_skippable_short"
       ELSE IF adDuration <= MEDIUM_MAX THEN "non_skippable_medium"
       ELSE "non_skippable_long"
  ELSE IF isSkippable THEN "skippable"
  ELSE IF adContainer THEN "non_skippable"
  ELSE "unknown"

\* detectAdTypeCommon: the type
AdTypeOf(isSkippable, adDuration, adContainer) ==
  IF isSkippable THEN "skippable"
  ELSE IF adDuration > 0
  THEN IF adDuration <= BUMPER_MAX THEN "bumper"
       ELSE IF adDuration <= SHORT_MAX THEN "non_skippable_short"
       ELSE IF adDuration <= MEDIUM_MAX THEN "non_skippable_medium"
       ELSE "non_skippable_long"
  ELSE IF adContainer THEN "non_skippable"
  ELSE "unknown"

\* detectAdTypeCommon: the position, from the time and the duration read from
\* the page; s is the position context after updateVideoContext
AdPositionOf(s, element, player) ==
  IF ~element.present THEN "unknown"
  ELSE
    LET override == /\ s.consecutiveAdCount > 1
                    /\ s.lastVideoContextTime > 0
                    /\ s.lastVideoContextDuration > 0
        videoCurrentTime == IF override THEN s.lastVideoContextTime
                            ELSE PlayerCurrentTime(element, player)
        totalDuration == IF override THEN s.lastVideoContextDuration
                         ELSE PlayerTotalDuration(element, player)
        distance == IF videoCurrentTime >= totalDuration
                    THEN videoCurrentTime - totalDuration
                    ELSE totalDuration - videoCurrentTime
    IN IF totalDuration > 0
       THEN IF /\ \/ element.ended
                   \/ distance < POSTROLL_TOLERANCE_SEC
                   \/ 10 * videoCurrentTime >= 9 * totalDuration
                /\ ~element.paused
            THEN "post_roll"
            ELSE IF videoCurrentTime <= NEAR_START_SEC \/ 20 * videoCurrentTime <= totalDuration
            THEN "pre_roll"
            ELSE "mid_roll"
       ELSE IF element.ended \/ videoCurrentTime >= LATE_WITHOUT_DURATION THEN "post_roll"
            ELSE IF videoCurrentTime <= NEAR_START_SEC THEN "pre_roll"
            ELSE "mid_roll"

\* detectAdTypeCommon: the time and the duration the position was decided on
PositionReference(s, element, player) ==
  IF s.consecutiveAdCount > 1 /\ s.lastVideoContextTime > 0 /\ s.lastVideoContextDuration > 0
  THEN <<s.lastVideoContextTime, s.lastVideoContextDuration>>
  ELSE <<PlayerCurrentTime(element, player), PlayerTotalDuration(element, player)>>

\* detectAdTypeCommon: the descriptor of the catch branch
CaughtDescriptor(s) ==
  [type |-> "unknown", isSkippable |-> FALSE, duration |-> 0, durationDetected |-> FALSE,
   durationSource |-> "none", position |-> "unknown",
   consecutiveAdNumber |-> s.consecutiveAdCount]

\* the source getBestAdDuration names for the page
BestSource(tracker, element, dom) ==
  getBestAdDuration(tracker, element.duration, element.present,
                    dom.progressTotal, dom.skipEstimate).source

\* detectAdTypeCommon: the descriptor it returns; s is the position context
\* it leaves behind
AdDescriptor(s, dom, element, player, tracker) ==
  LET best == getBestAdDuration(tracker, element.duration, element.present,
                                dom.progressTotal, dom.skipEstimate)
      skipText == ResolvedSkipText(dom)
      fromText == DurationFromTimeText(best, dom.timeText)
      fromLabel == DurationFromProgressLabel(fromText, dom.progressLabel, dom.hasProgressLabel)
      inferred == DurationFromSkipText(fromLabel, skipText)
      isSkippable == SkippableBeforeDuration(dom) \/ inferred.skippable
      final == DurationEstimated(inferred, isSkippable, dom.adContainer)
  IN IF best.error THEN CaughtDescriptor(s)
     ELSE [type |-> AdTypeOf(isSkippable, final.duration, dom.adContainer),
           isSkippable |-> isSkippable,
           duration |-> final.duration,
           durationDetected |-> final.detected,
           durationSource |-> final.source,
           position |-> AdPositionOf(s, element, player),
           consecutiveAdNumber |-> s.consecutiveAdCount]

----------------------------------------------------------------------------
(* The sampling pass of the page observer (checkDebugInfoAndAdState and the
   trySendDebugInfo inside it), with the ids it derives and the record it
   posts.  A page is what one pass reads: main (no player, or a feed page),
   ready (debug text and debug info both there), the two ids, the video
   element, the player info, the ad elements (dom) and elapsed, the seconds
   the duration tracker has run.  A pass started while a retry of an earlier
   pass is pending takes the retry timer over. *)

MAX_DEBUG_RETRIES == 5
RETRY_DELAY_MS == 500

\* faulty variant: a pass without ids is rescheduled once more
PassOutcome_RetriesOnceMore(hasVideo, hasAd, ready, retryCount) ==
  IF (hasVideo \/ hasAd) /\ ~ready /\ retryCount < MAX_DEBUG_RETRIES THEN "retry"
  ELSE IF hasVideo \/ hasAd THEN "post"
  ELSE IF retryCount <= MAX_DEBUG_RETRIES THEN "retry"
  ELSE "none"

\* faulty variant: without debug info the record is never posted
PassOutcome_WaitsForDebugInfo(hasVideo, hasAd, ready, retryCount) ==
  IF (hasVideo \/ hasAd) /\ ~ready THEN "retry"
  ELSE IF hasVideo \/ hasAd THEN "post"
  ELSE IF retryCount < MAX_DEBUG_RETRIES THEN "retry"
  ELSE "none"

\* trySendDebugInfo: retry in 500 ms, post, or give up
PassOutcome(hasVideo, hasAd, ready, retryCount) ==
  IF (hasVideo \/ hasAd) /\ ~ready /\ retryCount < MAX_DEBUG_RETRIES THEN "retry"
  ELSE IF hasVideo \/ hasAd THEN "post"
  ELSE IF retryCount < MAX_DEBUG_RETRIES THEN "retry"
  ELSE "none"

\* trySendDebugInfo: the duration tracker after the pass
TrackerAfterPass(tracker, adActive, newAd, lastAdId, elapsed) ==
  IF newAd THEN NewTracker
  ELSE IF ~adActive /\ Truthy(lastAdId) /\ tracker.exists /\ tracker.isTracking
  THEN [exists |-> TRUE, isTracking |-> FALSE, realDuration |-> elapsed]
  ELSE tracker

\* history of the sequence of ads: a newly detected ad right after another ad
\* continues the sequence, a newly detected ad after a pass without ad (or a
\* navigation) begins one
RunAfterDescriptor(o, adActive, newAd, descriptor, reference) ==
  LET begins == newAd /\ ~Truthy(o.lastAdDebugVideoId)
      run == IF ~adActive THEN 0
             ELSE IF begins THEN 1
             ELSE IF newAd THEN o.run + 1
             ELSE o.run
  IN [o EXCEPT !.run = run,
               !.runRef = IF ~adActive THEN <<0, 0>>
                          ELSE IF begins THEN reference ELSE @,
               !.runPosition = IF ~adActive THEN "none"
                               ELSE IF begins THEN descriptor.position ELSE @,
               !.sameRef = IF ~adActive \/ begins THEN TRUE ELSE reference = o.runRef]

\* the record of a post
Posted(o, record) ==
  [o EXCEPT !.posted = TRUE, !.lastPosted = record, !.hasPosted = TRUE,
            !.repeated = o.hasPosted /\ record = o.lastPosted]

NotPosted(o) ==
  [o EXCEPT !.posted = FALSE, !.repeated = FALSE]

\* checkDebugInfoAndAdState on a main page: the empty record, every time
MainPagePass ==
  /\ obs' = [Posted(obs, NoPost) EXCEPT !.pass = "main", !.ready = FALSE,
                                        !.retryCount = 0, !.retryPending = FALSE,
                                        !.retryDelay = 0]
  /\ UNCHANGED <<coordVars, cls, cs>>

\* trySendDebugInfo on a watch page; retry: the pass is the 500 ms retry of the
\* pass before
SamplingPass(page, retry) ==
  /\ retry => obs.retryPending
  /\ LET adActive == Truthy(page.addebug_videoId)
         newAd == adActive /\ page.addebug_videoId # obs.lastAdDebugVideoId
         hasVideo == Truthy(page.debug_videoId)
         retryCount == IF retry THEN obs.retryCount ELSE 0
         record == [debug_videoId |-> page.debug_videoId, adActive |-> adActive,
                    addebug_videoId |-> page.addebug_videoId]
     IN \E tracker \in {TrackerAfterPass(obs.tracker, adActive, newAd,
                                         obs.lastAdDebugVideoId, page.elapsed)} :
        \E s \in {SamplingContext(cls, adActive, newAd, page.element, page.player,
                                  tracker.exists)} :
        \E descriptor \in {IF adActive
                           THEN AdDescriptor(s, page.dom, page.element, page.player, tracker)
                           ELSE NoDescriptor} :
        \E outcome \in {PassOutcome(hasVideo, adActive, page.ready, retryCount)} :
          /\ cls' = s
          /\ obs' = [(IF outcome = "post"
                      THEN Posted(RunAfterDescriptor(obs, adActive, newAd, descriptor,
                                    PositionReference(s, page.element, page.player)),
                                  record)
                      ELSE NotPosted(RunAfterDescriptor(obs, adActive, newAd, descriptor,
                                       PositionReference(s, page.element, page.player))))
                     EXCEPT !.lastDebugVideoId = page.debug_videoId,
                            !.lastAdDebugVideoId = page.addebug_videoId,
                            !.tracker = tracker,
                            !.retryCount = IF outcome = "retry" THEN retryCount + 1
                                           ELSE retryCount,
                            !.retryPending = (outcome = "retry"),
                            !.retryDelay = IF outcome = "retry" THEN RETRY_DELAY_MS ELSE 0,
                            !.typeRetry = IF adActive /\ descriptor.type = "unknown" /\ newAd
                                          THEN [pending |-> TRUE, record |-> record]
                                          ELSE @,
                            !.pass = "watch",
                            !.ready = page.ready,
                            !.descriptor = descriptor,
                            !.dom = page.dom,
                            !.bestSource = IF adActive
                                           THEN BestSource(tracker, page.element, page.dom)
                                           ELSE "none",
                            !.caught = adActive /\ ~tracker.exists]
  /\ UNCHANGED <<coordVars, cs>>

\* the second type detection, 1000 ms after a pass that found a new ad of
\* unknown type; it posts the ids of that pass when the type is known now
DelayedTypeRetry(page) ==
  /\ obs.typeRetry.pending
  /\ \E s \in {detectAdTypeCommon(cls, page.element, page.player, obs.tracker.exists)} :
     \E descriptor \in {AdDescriptor(s, page.dom, page.element, page.player, obs.tracker)} :
       /\ cls' = s
       /\ obs' = [(IF descriptor.type # "unknown"
                   THEN Posted(obs, [obs.typeRetry.record EXCEPT !.adActive = TRUE])
                   ELSE NotPosted(obs))
                  EXCEPT !.typeRetry = [pending |-> FALSE, record |-> NoPost],
                         !.pass = "typeRetry",
                         !.ready = page.ready,
                         !.descriptor = descriptor,
                         !.dom = page.dom,
                         !.bestSource = BestSource(obs.tracker, page.element, page.dom),
                         !.caught = ~obs.tracker.exists]
  /\ UNCHANGED <<coordVars, cs>>

\* executeFullAdDataExtraction: the descriptor of detectAdType with the
\* position of detectarPosicionAnuncio
ExtractAdData(page) ==
  /\ ExtractionContext(page.element, page.player)
  /\ obs' = [obs EXCEPT !.pass = "extraction",
                        !.descriptor =
                           [AdDescriptor(cls', page.dom, page.element, page.player,
                                         obs.tracker)
                            EXCEPT !.position = cls'.position],
                        !.dom = page.dom,
                        !.bestSource = BestSource(obs.tracker, page.element, page.dom),
                        !.caught = ~obs.tracker.exists]
  /\ UNCHANGED <<coordVars, cs>>

\* handleNavigation (popstate, pushstate, replacestate)
HandleNavigation ==
  /\ cls' = resetAdDataVariables(cls)
  /\ obs' = [obs EXCEPT !.lastAdDebugVideoId = Null, !.lastDebugVideoId = Null,
                        !.tracker = NoTracker, !.pass = "navigation",
                        !.debounce = clearAllDebounces(@)]
  /\ UNCHANGED <<coordVars, cs>>

MaxRun == 3

ObservedElements ==
  {NoElement,
   [present |-> TRUE, paused |-> FALSE, currentTime |-> 300, duration |-> 600,
    ended |-> FALSE, readyState |-> HAVE_ENOUGH_DATA],
   [present |-> TRUE, paused |-> FALSE, currentTime |-> 5, duration |-> 600,
    ended |-> FALSE, readyState |-> HAVE_ENOUGH_DATA],
   [present |-> TRUE, paused |-> FALSE, currentTime |-> 5, duration |-> 15,
    ended |-> FALSE, readyState |-> HAVE_ENOUGH_DATA]}

ObservedPlayers ==
  {NoPlayerInfo, [lengthSeconds |-> 600, progress |-> 300, max |-> 600, argsT |-> 0]}

\* an ad with the usual overlay: container and skip button
OverlayDom == [NoDom EXCEPT !.skipButton = TRUE, !.adContainer = TRUE]

\* pages of the sequence of ads: debug info ready, one video, any element
ObservedPages ==
  [ready : {TRUE}, debug_videoId : {"vid_AAAAAAA"},
   addebug_videoId : {Null} \cup AdIds, element : ObservedElements,
   player : ObservedPlayers, dom : {NoDom, OverlayDom}, elapsed : {20}]

NextObserver ==
  \/ MainPagePass
  \/ \E page \in ObservedPages, retry \in BOOLEAN :
       SamplingPass(page, retry) /\ obs'.run <= MaxRun
  \/ \E page \in ObservedPages : DelayedTypeRetry(page)
  \/ HandleNavigation

SpecObserver == Init /\ [][NextObserver]_vars

\* C11: every ad of one unbroken sequence of ads is positioned with the time
\* and the duration the first ad of the sequence was positioned with (three
\* ads in a row on a video of 600 s interrupted at 300 s are all mid_roll).
C11_SequenceKeepsItsReference ==
  (/\ obs.pass = "watch" /\ obs.run >= 2
   /\ obs.runPosition \in Positions /\ obs.descriptor.position \in Positions) =>
    /\ obs.sameRef
    /\ obs.descriptor.position = obs.runPosition

\* C12: consecutiveAdNumber is the 1-based position of the ad in its sequence:
\* 1 for the first ad, one more for each further ad.
C12_OrdinalIsPlaceInSequence ==
  (obs.pass = "watch" /\ obs.run >= 1) =>
    obs.descriptor.consecutiveAdNumber = obs.run

----------------------------------------------------------------------------
(* The descriptor over the ad elements a page can show.  The page shows one
   set of ad elements throughout a behaviour; the passes, the extraction on
   demand and the navigation act on it in any order, so the descriptor is
   built with and without a duration tracker and with a measured duration. *)

AdDoms ==
  {dom \in [skipButton : BOOLEAN,
            buttonText : {NoText, [empty |-> FALSE, number |-> 4]},
            selectorText : SkipTexts, bodySkipPhrase : BOOLEAN, adContainer : BOOLEAN,
            timeText : TimeTexts, hasProgressLabel : BOOLEAN, progressLabel : {16},
            progressTotal : {0, 12}, skipEstimate : {0, 25}] :
     /\ ~dom.skipButton => dom.buttonText = NoText
     /\ dom.progressTotal > 0 => dom.skipEstimate = 0}

\* the ad plays in the video element (duration 15), or there is no element
AdElements ==
  {NoElement,
   [present |-> TRUE, paused |-> FALSE, currentTime |-> 5, duration |-> 15,
    ended |-> FALSE, readyState |-> HAVE_ENOUGH_DATA]}

AdTypePages(dom) ==
  [ready : {TRUE}, debug_videoId : {"vid_AAAAAAA"},
   addebug_videoId : {Null, "ad_AAAAAAAA"}, element : AdElements,
   player : {NoPlayerInfo}, dom : {dom}, elapsed : {20}]

InitAdType ==
  /\ CoordInit
  /\ cls = ClsInit /\ cs = CsInit
  /\ \E dom \in AdDoms : obs = [ObsInit EXCEPT !.dom = dom]

NextAdType ==
  \/ \E page \in AdTypePages(obs.dom) : SamplingPass(page, FALSE)
  \/ \E page \in AdTypePages(obs.dom) : DelayedTypeRetry(page)
  \/ \E page \in AdTypePages(obs.dom) : ExtractAdData(page)
  \/ HandleNavigation

SpecAdType == InitAdType /\ [][NextAdType]_vars

\* the last step built a descriptor
DescriptorBuilt ==
  obs.pass \in {"watch", "typeRetry", "extraction"} /\ obs.descriptor # NoDescriptor

\* no source that is asked before the skip text gave a duration, and the skip
\* text counts down from at most 6
CountdownOnly ==
  /\ DescriptorBuilt /\ ~obs.caught
  /\ obs.bestSource = "none"
  /\ \/ obs.dom.timeText.kind = "none"
     \/ obs.dom.timeText.kind = "seconds" /\ obs.dom.timeText.value >= MAX_AD_DURATION
  /\ ~obs.dom.hasProgressLabel
  /\ ~ResolvedSkipText(obs.dom).empty
  /\ ResolvedSkipText(obs.dom).number \in 0..BUMPER_MAX

RuleType(isSkippable, duration, containerDetected) ==
  IF isSkippable THEN "skippable"
  ELSE IF duration > 0
  THEN IF duration <= 6 THEN "bumper"
       ELSE IF duration <= 15 THEN "non_skippable_short"
       ELSE IF duration <= 30 THEN "non_skippable_medium"
       ELSE "non_skippable_long"
  ELSE IF containerDetected THEN "non_skippable"
  ELSE "unknown"

\* C14: in every ad descriptor the type is the one the rule gives for its
\* isSkippable, its duration and whether an ad container was detected.
C14_TypeFollowsRule ==
  DescriptorBuilt =>
    obs.descriptor.type =
      RuleType(obs.descriptor.isSkippable, obs.descriptor.duration, obs.dom.adContainer)

----------------------------------------------------------------------------
(* Posting: passes over pages whose debug info may not be ready and whose
   ids come and go. *)

PostingPages ==
  [ready : BOOLEAN, debug_videoId : {Null, "vid_AAAAAAA"},
   addebug_videoId : {Null, "ad_AAAAAAAA"}, element : {NoElement},
   player : {NoPlayerInfo}, dom : {NoDom, OverlayDom}, elapsed : {20}]

NextPosting ==
  \/ MainPagePass
  \/ \E page \in PostingPages, retry \in BOOLEAN : SamplingPass(page, retry)
  \/ \E page \in PostingPages : DelayedTypeRetry(page)
  \/ HandleNavigation

SpecPosting == Init /\ [][NextPosting]_vars

\* C15 as stated: a sampling pass posts a record only when the state it
\* derived (video id, ad id, ad activity) differs from the state last posted.
C15_PostsOnlyChanges ==
  (obs.pass = "watch" /\ obs.posted) => ~obs.repeated

\* C15 amended: a pass on a watch page posts exactly when it derived a video
\* id or an ad id and the debug info is ready or the five retries are used up,
\* whether or not the derived state changed; a pass on a main page always
\* posts; a pass never retries more than five times.
C15_PostsWheneverIdsAreDerived ==
  /\ obs.pass = "main" => obs.posted
  /\ obs.pass = "watch" =>
       /\ obs.retryCount <= MAX_DEBUG_RETRIES
       /\ obs.posted <=>
            /\ Truthy(obs.lastDebugVideoId) \/ Truthy(obs.lastAdDebugVideoId)
            /\ obs.ready \/ (obs.retryCount = MAX_DEBUG_RETRIES /\ ~obs.retryPending)

\* C15 witness: a pass on a watch page posted the state that was posted last
C15_Witness ==
  /\ obs.pass = "watch" /\ obs.posted /\ obs.repeated
  /\ obs.lastPosted.debug_videoId = "vid_AAAAAAA"

----------------------------------------------------------------------------
(* The content script: sendMessage with its rate limit and its buffer of the
   last message of each type, the listener that forwards YTD_DEBUG_ALL, and
   checkAdStatus.  Two messages are similar when their JSON texts are equal;
   the messages here are records of strings and booleans, so that is equality
   of the records.  Once the extension context is invalidated
   chrome.runtime.sendMessage is missing or throws on every call. *)

MIN_SEND_GAP_MS == 500

MaxSendTicks == 3
MaxStableChecks == 2

\* messageBuffer's slot of a message type
BufferSlot(type) ==
  CASE type = "VIDEO_DEBUG_ALL" -> "lastVideoDebugAll"
    [] type = "AD_DETECTED" -> "lastAdDetected"
    [] type = "AD_ENDED" -> "lastAdEnded"

\* isMessageSimilar
isMessageSimilar(msg1, msg2) ==
  IF msg1 = NoSent \/ msg2 = NoSent THEN FALSE ELSE msg1 = msg2

\* faulty variant: no minimum gap between two sends
sendMessage_AnyGap(c, messageData, t) ==
  LET slot == BufferSlot(messageData.type)
      isDuplicate == isMessageSimilar(messageData, c[slot])
      buffered == IF isDuplicate THEN c ELSE [c EXCEPT ![slot] = messageData]
  IN IF ~isDuplicate /\ c.contextValid
     THEN [buffered EXCEPT !.lastSentTime = t, !.sent = TRUE,
                           !.lastSent[messageData.type] = messageData,
                           !.resent = (c.lastSent[messageData.type] = messageData),
                           !.previousAt = c.lastSentTime,
                           !.nSent = IF c.nSent < 2 THEN c.nSent + 1 ELSE 2]
     ELSE [buffered EXCEPT !.sent = FALSE]

\* sendMessage at time t; c is the content script's state
sendMessage(c, messageData, t) ==
  IF t - c.lastSentTime < MIN_SEND_GAP_MS THEN [c EXCEPT !.sent = FALSE]
  ELSE
    LET slot == BufferSlot(messageData.type)
        isDuplicate == isMessageSimilar(messageData, c[slot])
        buffered == IF isDuplicate THEN c ELSE [c EXCEPT ![slot] = messageData]
    IN IF ~isDuplicate /\ c.contextValid
       THEN [buffered EXCEPT !.lastSentTime = t, !.sent = TRUE,
                             !.lastSent[messageData.type] = messageData,
                             !.resent = (c.lastSent[messageData.type] = messageData),
                             !.previousAt = c.lastSentTime,
                             !.nSent = IF c.nSent < 2 THEN c.nSent + 1 ELSE 2]
       ELSE [buffered EXCEPT !.sent = FALSE]

\* the records the page observer posts, as far as their JSON text differs
PostedRecords ==
  {[debugText |-> text, debug_videoId |-> videoId, addebug_videoId |-> adId] :
     text \in DebugTexts, videoId \in {Null, "vid_AAAAAAA"},
     adId \in {Null, "ad_AAAAAAAA"}}

\* window message listener: YTD_DEBUG_ALL is forwarded as VIDEO_DEBUG_ALL
OnYtdDebugAll(data) ==
  /\ cs' = [sendMessage(cs, [type |-> "VIDEO_DEBUG_ALL", debugText |-> data.debugText,
                             adActive |-> Truthy(data.addebug_videoId),
                             addebug_videoId |-> data.addebug_videoId,
                             debug_videoId |-> data.debug_videoId], now)
            EXCEPT !.call = "listener"]
  /\ UNCHANGED <<coordVars, cls, obs>>

\* checkAdStatus, every 2 s; addebug_videoId is what getAdDebugVideoId reads
checkAdStatus(addebug_videoId) ==
  LET hasAd == Truthy(addebug_videoId)
      adIdChanged == addebug_videoId # cs.lastAdDebugId
      adStateChanged == hasAd # cs.lastAdState
      counted == [cs EXCEPT !.stableAdCheckCount =
                              IF adStateChanged \/ adIdChanged THEN 0 ELSE @ + 1,
                            !.call = "checkAdStatus", !.sent = FALSE,
                            !.absentChecks =
                              IF ~hasAd /\ cs.lastAdState THEN @ + 1 ELSE 0]
  IN /\ cs' = IF adStateChanged \/ adIdChanged
              THEN IF hasAd /\ addebug_videoId # cs.lastAdDebugId
                   THEN sendMessage([counted EXCEPT !.lastAdDebugId = addebug_videoId,
                                                    !.lastAdState = TRUE],
                                    [type |-> "AD_DETECTED",
                                     addebug_videoId |-> addebug_videoId], now)
                   ELSE IF ~hasAd /\ cs.lastAdState /\ counted.stableAdCheckCount >= 1
                   THEN sendMessage([counted EXCEPT !.lastAdState = FALSE,
                                                    !.lastAdDebugId = Null],
                                    [type |-> "AD_ENDED"], now)
                   ELSE counted
              ELSE counted
     /\ UNCHANGED <<coordVars, cls, obs>>

\* the extension is reloaded or removed while the page stays open
ContextInvalidated ==
  /\ cs.contextValid
  /\ cs' = [cs EXCEPT !.contextValid = FALSE, !.call = "invalidated", !.sent = FALSE]
  /\ UNCHANGED <<coordVars, cls, obs>>

SendTimeSteps == {250, 500}

NextContent ==
  \/ \E d \in SendTimeSteps : ticks < MaxSendTicks /\ Tick(d)
  \/ \E data \in PostedRecords : OnYtdDebugAll(data)
  \/ \E adId \in {Null} \cup AdIds :
       /\ checkAdStatus(adId)
       /\ cs'.stableAdCheckCount <= MaxStableChecks
       /\ cs'.absentChecks <= MaxStableChecks
  \/ ContextInvalidated

SpecContent == Init /\ [][NextContent]_vars

----------------------------------------------------------------------------
(* The per-tab records and the badge. *)

MaxTabEvents == 3

\* the page's debug info names the ad, or 'empty_video', or nothing
TabEvents ==
  ObservationEvents({""}, {Null, "ad_AAAAAAAA", "empty_video"}, {Null, "vid_AAAAAAA"})

NextTabs ==
  \/ \E tabId \in Tabs, message \in TabEvents :
       nEvents < MaxTabEvents /\ VideoDebugAll(tabId, message)
  \/ \E tabId \in Tabs : nEvents < MaxTabEvents /\ AdDetected(tabId)
  \/ \E tabId \in Tabs : nEvents < MaxTabEvents /\ AdEnded(tabId)
  \/ \E tabId \in Tabs : nEvents < MaxTabEvents /\ TabRemoved(tabId)
  \/ \E tabId \in Tabs : nEvents < MaxTabEvents /\ TabLoading(tabId)
  \/ nEvents < MaxTabEvents /\ ForceCleanup
  \/ nEvents < MaxTabEvents /\ CleanupMemory
  \/ SaveAdTimestampRead
  \/ SaveAdTimestampWritten
  \/ VideoCountingRead
  \/ VideoCountingWritten

SpecTabs == Init /\ [][NextTabs]_vars

\* the record of a tab, or the mark of a tab without record
NoRecord == [absent |-> TRUE]
RecordOf(data, tabId) == IF tabId \in DOMAIN data THEN data[tabId] ELSE NoRecord

\* C17: the badge of a tab reads 'AD' exactly when the tab has a record with
\* adActive = true.
C17_BadgeIffRecordActive ==
  \A tabId \in Tabs :
    badge[tabId] = "AD" <=>
      (tabId \in DOMAIN debugDataByTab /\ debugDataByTab[tabId].adActive = TRUE)

\* C18: in every per-tab record adActive = true implies that addebug_videoId
\* is neither null nor empty nor 'empty_video'.
C18_ActiveRecordNamesAnAd ==
  \A tabId \in DOMAIN debugDataByTab :
    debugDataByTab[tabId].adActive = TRUE =>
      /\ Truthy(debugDataByTab[tabId].addebug_videoId)
      /\ debugDataByTab[tabId].addebug_videoId # "empty_video"

\* C19 as stated: handling AD_DETECTED, AD_ENDED or a query leaves every
\* record as it is and creates none.
C19_OnlyObservationsChangeRecords ==
  [][(/\ nEvents' = nEvents + 1
      /\ lastEvent'.kind \in {"AD_DETECTED", "AD_ENDED", "GET_ADS_LAST_24H",
                              "GET_VIDEOS_LAST_24H", "RESET_COUNTERS"})
     => debugDataByTab' = debugDataByTab]_vars

\* C19 amended: AD_DETECTED and the queries leave every record as it is and
\* create none; AD_ENDED of a tab leaves the records of the other tabs as they
\* are and sets the tab's adActive to false and addebug_videoId to null,
\* keeping the other fields, or creating the record when there was none.
C19_AdEndedClearsTheAd ==
  [][/\ (/\ nEvents' = nEvents + 1
         /\ lastEvent'.kind \in {"AD_DETECTED", "GET_ADS_LAST_24H",
                                 "GET_VIDEOS_LAST_24H", "RESET_COUNTERS"})
        => debugDataByTab' = debugDataByTab
     /\ (nEvents' = nEvents + 1 /\ lastEvent'.kind = "AD_ENDED")
        => /\ \A tabId \in Tabs \ {lastEvent'.tab} :
                RecordOf(debugDataByTab', tabId) = RecordOf(debugDataByTab, tabId)
           /\ lastEvent'.tab \in DOMAIN debugDataByTab'
           /\ debugDataByTab'[lastEvent'.tab].adActive = FALSE
           /\ debugDataByTab'[lastEvent'.tab].addebug_videoId = Null
           /\ lastEvent'.tab \in DOMAIN debugDataByTab =>
                /\ debugDataByTab'[lastEvent'.tab].debugText =
                     debugDataByTab[lastEvent'.tab].debugText
                /\ debugDataByTab'[lastEvent'.tab].debug_videoId =
                     debugDataByTab[lastEvent'.tab].debug_videoId
                /\ debugDataByTab'[lastEvent'.tab].lastUpdate =
                     debugDataByTab[lastEvent'.tab].lastUpdate]_vars

\* C19 witness: AD_ENDED was handled for a tab without record and created one
C19_Witness ==
  /\ lastEvent.kind = "AD_ENDED"
  /\ lastEvent.tab \in DOMAIN debugDataByTab
  /\ debugDataByTab[lastEvent.tab].debugText = Undefined
  /\ debugDataByTab[lastEvent.tab].adActive = FALSE

\* C20: once tabs.onRemoved of a tab is handled, none of debugDataByTab,
\* lastCountedVideoIdByTab, lastCountedAdIdByTab and lastAdStateByTab has an
\* entry for the tab.
C20_RemovedTabLeavesNoEntry ==
  lastEvent.kind = "TAB_REMOVED" =>
    /\ lastEvent.tab \notin DOMAIN debugDataByTab
    /\ lastEvent.tab \notin DOMAIN lastCountedVideoIdByTab
    /\ lastEvent.tab \notin DOMAIN lastCountedAdIdByTab
    /\ lastEvent.tab \notin DOMAIN lastAdStateByTab

\* a tab has the same entry, or none, in two versions of a per-tab map
SameEntry(before, after, tabId) ==
  /\ tabId \in DOMAIN after <=> tabId \in DOMAIN before
  /\ tabId \in DOMAIN before /\ tabId \in DOMAIN after => after[tabId] = before[tabId]

\* C21: when the storage read of handleVideoCounting completes for a tab that was
\* closed while the read was pending, the tab's entries in the tracking maps
\* are as they were before the completion, and so is its record.
C21_LateReadLeavesClosedTabAlone ==
  [][(/\ HeadIs("videoGet") /\ Head(pending).flag
      /\ nEvents' = nEvents
      /\ lastEvent'.kind \in {"write_videoTimestamps", "video_exists"})
     => /\ SameEntry(lastCountedVideoIdByTab, lastCountedVideoIdByTab', Head(pending).tab)
        /\ SameEntry(lastCountedAdIdByTab, lastCountedAdIdByTab', Head(pending).tab)
        /\ SameEntry(lastAdStateByTab, lastAdStateByTab', Head(pending).tab)
        /\ SameEntry(debugDataByTab, debugDataByTab', Head(pending).tab)]_vars

----------------------------------------------------------------------------
(* The periodic sweep with more tabs open than records are kept. *)

MaxSweepTabs == 52
MaxSweepEvents == 3
MaxSweepTicks == 2

SweepTabs == 1..MaxSweepTabs

\* the record of a tab whose page showed neither a video nor an ad
IdleRecord(t) == updateTabData(ObserverMessage("", Null, Null, Null), FALSE, t)

\* tabs 3..n have a record; one of them may have been updated earlier than
\* the others
SweepStores ==
  {[t \in 3..n |-> IdleRecord(IF t = special THEN StartTime - age ELSE StartTime)] :
     n \in (MAX_ENTRIES + 1)..MaxSweepTabs, special \in {0, 3, MAX_ENTRIES + 1},
     age \in {1, MAX_AGE}}

InitSweep ==
  /\ now = StartTime
  /\ debugDataByTab \in SweepStores
  /\ lastCountedVideoIdByTab = EmptyMap
  /\ lastAdStateByTab = [t \in DOMAIN debugDataByTab |-> FALSE]
  /\ lastCountedAdIdByTab = EmptyMap
  /\ globalVideoProcessing = {}
  /\ badge = [t \in SweepTabs |-> ""]
  /\ adTimestamps = <<>>
  /\ videoTimestamps = <<>>
  /\ pending = <<>>
  /\ lastEvent = Event("init", 0, FALSE, 0, <<>>, 0, FALSE)
  /\ adCounted = <<>>
  /\ videoPushed = <<>>
  /\ nEvents = 0
  /\ ticks = 0
  /\ clears = 0
  /\ sinceReset = "never"
  /\ cls = ClsInit /\ obs = ObsInit /\ cs = CsInit

SweepEvents == ObservationEvents({""}, {Null}, {Null})
SweepTimeSteps == {1, MAX_AGE - 1}

NextSweep ==
  \/ \E d \in SweepTimeSteps : ticks < MaxSweepTicks /\ Tick(d)
  \/ \E tabId \in Tabs, message \in SweepEvents :
       nEvents < MaxSweepEvents /\ VideoDebugAll(tabId, message)
  \/ \E tabId \in Tabs : nEvents < MaxSweepEvents /\ AdEnded(tabId)
  \/ nEvents < MaxSweepEvents /\ ForceCleanup
  \/ nEvents < MaxSweepEvents /\ CleanupMemory

SpecSweep == InitSweep /\ [][NextSweep]_vars

\* C22: after a sweep that does not take the emergency path there are at most
\* 50 records, every record left was updated within the last 15 minutes, and
\* no removed record was updated more recently than a record that was kept.
C22_SweepKeepsTheNewest ==
  [][(nEvents' = nEvents + 1 /\ lastEvent'.kind = "CLEANUP_MEMORY")
     => /\ Cardinality(DOMAIN debugDataByTab') <= MAX_ENTRIES
        /\ \A tabId \in DOMAIN debugDataByTab' :
             /\ debugDataByTab'[tabId] = debugDataByTab[tabId]
             /\ debugDataByTab'[tabId].lastUpdate # 0
             /\ now' - debugDataByTab'[tabId].lastUpdate <= MAX_AGE
        /\ \A kept \in DOMAIN debugDataByTab' :
             \A removed \in DOMAIN debugDataByTab \ DOMAIN debugDataByTab' :
               debugDataByTab[removed].lastUpdate <= debugDataByTab[kept].lastUpdate]_vars

\* C22 witness: a sweep found more than 50 records, none of them stale, and
\* left exactly 50
C22_Witness ==
  /\ lastEvent.kind = "CLEANUP_MEMORY"
  /\ lastEvent.count > MAX_ENTRIES
  /\ Cardinality(DOMAIN debugDataByTab) = MAX_ENTRIES

\* C23: after a sweep each tracking map has entries only for tabs that still
\* have a record.
C23_TrackingFollowsRecords ==
  lastEvent.kind = "CLEANUP_MEMORY" =>
    /\ DOMAIN lastCountedVideoIdByTab \subseteq DOMAIN debugDataByTab
    /\ DOMAIN lastCountedAdIdByTab \subseteq DOMAIN debugDataByTab
    /\ DOMAIN lastAdStateByTab \subseteq DOMAIN debugDataByTab

----------------------------------------------------------------------------
(* The storage monitor: chrome.storage.local close to its limit. *)

CRITICAL_PERCENT == 95
MAX_SIZE == 5242880
MaxFreeBytes == 1      \* bytes below the critical threshold before any entry is stored

\* bytes of a stored entry: at least the characters of its id and of its keys
BytesOfEntry(e) == Len(e.id) + Len("timestamp")

RECURSIVE BytesOfList(_)
BytesOfList(list) ==
  IF list = <<>> THEN 0 ELSE BytesOfEntry(Head(list)) + BytesOfList(Tail(list))

\* what the rest of the store holds (query history, settings)
OtherBytes == (CRITICAL_PERCENT * MAX_SIZE) \div 100 - MaxFreeBytes

\* chrome.storage.local.getBytesInUse(null)
BytesInUse(ads, videos) == OtherBytes + BytesOfList(ads) + BytesOfList(videos)

\* getStorageInfo().isCritical: bytesUsed / chromeStorageLimit >= 0.95
IsCritical(bytesUsed) == 100 * bytesUsed >= CRITICAL_PERCENT * MAX_SIZE

EntriesOf(list) == {list[i] : i \in 1..Len(list)}

\* C24: while the store is at or above the critical threshold no step stores
\* an entry in adTimestamps or videoTimestamps that was not there before.
C24_CriticalStoreBlocksCounting ==
  [][IsCritical(BytesInUse(adTimestamps, videoTimestamps))
     => /\ EntriesOf(adTimestamps') \subseteq EntriesOf(adTimestamps)
        /\ EntriesOf(videoTimestamps') \subseteq EntriesOf(videoTimestamps)]_vars

----------------------------------------------------------------------------
(* Isolation of the tabs. *)

\* the step handles a message sent from a tab, or runs a storage callback of
\* the counting such a message started
TabMessageStep ==
  /\ nEvents' = nEvents + 1 \/ pending' # pending
  /\ lastEvent'.kind \in {"VIDEO_DEBUG_ALL", "AD_DETECTED", "AD_ENDED",
                          "write_adTimestamps", "AD_COUNT_UPDATED",
                          "write_videoTimestamps", "video_exists", "VIDEO_COUNT_UPDATED"}

\* C25: handling a message from a tab leaves the entries of every other tab
\* in debugDataByTab, lastCountedVideoIdByTab, lastCountedAdIdByTab and
\* lastAdStateByTab as they are.
C25_OtherTabsUntouched ==
  [][TabMessageStep =>
       \A other \in Tabs \ {lastEvent'.tab} :
         /\ SameEntry(debugDataByTab, debugDataByTab', other)
         /\ SameEntry(lastCountedVideoIdByTab, lastCountedVideoIdByTab', other)
         /\ SameEntry(lastCountedAdIdByTab, lastCountedAdIdByTab', other)
         /\ SameEntry(lastAdStateByTab, lastAdStateByTab', other)]_vars

\* C25 witness: a VIDEO_DEBUG_ALL of one tab was applied while another tab had
\* an entry in each of the four maps
C25_Witness ==
  /\ lastEvent.kind = "VIDEO_DEBUG_ALL" /\ lastEvent.applied
  /\ \E other \in Tabs \ {lastEvent.tab} :
       /\ other \in DOMAIN debugDataByTab
       /\ other \in DOMAIN lastCountedVideoIdByTab
       /\ other \in DOMAIN lastCountedAdIdByTab
       /\ other \in DOMAIN lastAdStateByTab

----------------------------------------------------------------------------
(* Video counting with ids that must not be counted. *)

MaxVideoIdEvents == 2

\* video ids of 9, 10 and 11 characters, and a video id equal to the ad id
VideoIdEvents ==
  ObservationEvents({""}, {Null, "ad_AAAAAAAA"},
                    {Null, "vid_AAAAA", "vid_AAAAAA", "vid_AAAAAAA", "ad_AAAAAAAA"})

NextVideoIds ==
  \/ \E tabId \in Tabs, message \in VideoIdEvents :
       nEvents < MaxVideoIdEvents /\ VideoDebugAll(tabId, message)
  \/ \E tabId \in Tabs : nEvents < MaxVideoIdEvents /\ AdEnded(tabId)
  \/ SaveAdTimestampRead
  \/ SaveAdTimestampWritten
  \/ VideoCountingRead
  \/ VideoCountingWritten

SpecVideoIds == Init /\ [][NextVideoIds]_vars

CountableId(id) == Truthy(id) /\ IdLength(id) >= MIN_VIDEO_ID_LENGTH

\* the step starts a counting attempt: handleVideoCounting issues its read
StartsCounting ==
  /\ nEvents' = nEvents + 1
  /\ Len(pending') > Len(pending)
  /\ pending'[Len(pending')].kind = "videoGet"

\* C26: a counting attempt starts only for an id that is not null, has at
\* least 10 characters and differs from the ad id in the tab's record at that
\* time, and an entry is appended to the video collection only for the id of
\* a counting attempt, when its read completes.
C26_OnlyCountableIdsArePushed ==
  [][/\ StartsCounting =>
          /\ CountableId(pending'[Len(pending')].id)
          /\ pending'[Len(pending')].id =
               debugDataByTab'[pending'[Len(pending')].tab].debug_videoId
          /\ pending'[Len(pending')].id #
               debugDataByTab'[pending'[Len(pending')].tab].addebug_videoId
     /\ videoPushed' # videoPushed =>
          /\ HeadIs("videoGet")
          /\ videoPushed' = Append(videoPushed, videoPushed'[Len(videoPushed')])
          /\ videoPushed'[Len(videoPushed')].id = Head(pending).id
          /\ CountableId(videoPushed'[Len(videoPushed')].id)
          /\ videoTimestamps'[Len(videoTimestamps')].id = Head(pending).id]_vars

\* C26 witness: a video id of exactly 10 characters was appended for a tab
\* whose record names an ad, after a message whose video id was the ad id
C26_Witness ==
  /\ lastEvent.kind = "write_videoTimestamps"
  /\ videoTimestamps[Len(videoTimestamps)].id = "vid_AAAAAA"
  /\ lastEvent.tab \in DOMAIN debugDataByTab
  /\ debugDataByTab[lastEvent.tab].addebug_videoId = "ad_AAAAAAAA"
  /\ \E other \in DOMAIN debugDataByTab :
       /\ debugDataByTab[other].debug_videoId = "ad_AAAAAAAA"
       /\ debugDataByTab[other].addebug_videoId = "ad_AAAAAAAA"

----------------------------------------------------------------------------
(* Claims about checkAdStatus, checked under SpecContent *)

\* C27: when checkAdStatus has found the ad id absent in two checks in a row
\* while an ad was announced, the ad is no longer announced: lastAdState is
\* false and lastAdDebugId is null.
C27_AbsentAdIsEnded ==
  (cs.call = "checkAdStatus" /\ cs.absentChecks >= 2) =>
    (~cs.lastAdState /\ cs.lastAdDebugId = Null)

\* C28: a check that records a new ad id passes an AD_DETECTED message with
\* that id to chrome.runtime.sendMessage in the same call, as long as the
\* extension context is valid.
C28_NewAdIsAnnounced ==
  [][(/\ cs'.call = "checkAdStatus"
      /\ cs'.lastAdDebugId # cs.lastAdDebugId
      /\ Truthy(cs'.lastAdDebugId)
      /\ cs.contextValid)
     => /\ cs'.sent
        /\ cs'.lastSent["AD_DETECTED"] =
             [type |-> "AD_DETECTED", addebug_videoId |-> cs'.lastAdDebugId]]_vars

----------------------------------------------------------------------------
(* Claims about the retries of a sampling pass, checked under SpecPosting *)

\* C29: a sampling pass is rescheduled at most 5 times, each time 500 ms
\* ahead; the run after the fifth retry schedules nothing more, and it posts
\* the ids it derived exactly when it derived a video id or an ad id, whether
\* or not the debug info is ready.
C29_FiveRetriesThenPartialState ==
  /\ obs.retryCount <= MAX_DEBUG_RETRIES
  /\ obs.retryPending => (obs.retryCount >= 1 /\ obs.retryDelay = 500)
  /\ (obs.pass = "watch" /\ obs.retryCount = MAX_DEBUG_RETRIES /\ ~obs.retryPending) =>
       /\ obs.posted <=> (Truthy(obs.lastDebugVideoId) \/ Truthy(obs.lastAdDebugVideoId))
       /\ obs.posted =>
            /\ obs.lastPosted.debug_videoId = obs.lastDebugVideoId
            /\ obs.lastPosted.addebug_videoId = obs.lastAdDebugVideoId

\* C29 witness: the run after the fifth retry posted a video id although the
\* debug info was not ready
C29_Witness ==
  /\ obs.pass = "watch" /\ obs.retryCount = MAX_DEBUG_RETRIES /\ ~obs.retryPending
  /\ obs.posted /\ ~obs.ready
  /\ obs.lastPosted.debug_videoId = "vid_AAAAAAA"

----------------------------------------------------------------------------
(* Resolution of the ad id in a sampling pass. *)

AD_TOKEN_MIN == 5

\* debugText.match(/addebug_videoId["']?\s*[:=]\s*["']?([\w-]{5,})/)
AdIdMatch(text) ==
  IF ~text.empty /\ Truthy(text.token) /\ Len(text.token) >= AD_TOKEN_MIN
  THEN text.token ELSE Null

\* trySendDebugInfo: let addebug_videoId = null; if ... else if ... else if ...
resolveAdId(sources) ==
  IF Truthy(sources.config) THEN sources.config
  ELSE IF ~sources.text.empty THEN AdIdMatch(sources.text)
  ELSE IF Truthy(sources.response) THEN sources.response
  ELSE Null

DebugTextKinds ==
  {[empty |-> TRUE, token |-> Null], [empty |-> FALSE, token |-> Null],
   [empty |-> FALSE, token |-> "ad_A"], [empty |-> FALSE, token |-> "ad_AA"],
   [empty |-> FALSE, token |-> "ad_AAAAAAAA"]}

AdIdSources ==
  [config : {Null, "", "ad_BBBBBBBB", "ad_CCCCCCCC"}, text : DebugTextKinds,
   response : {Null, "ad_DDDDDDDD", "ad_EEEEEEEE"}]

InitResolve ==
  /\ CoordInit /\ cls = ClsInit /\ cs = CsInit
  /\ obs \in {[ObsInit EXCEPT !.sources = sources] : sources \in AdIdSources}

\* the part of a sampling pass that resolves the ad id
ResolveAdId ==
  /\ obs.pass = "none"
  /\ obs' = [obs EXCEPT !.resolvedAdId = resolveAdId(obs.sources), !.pass = "resolve"]
  /\ UNCHANGED <<coordVars, cls, cs>>

NextResolve == ResolveAdId

SpecResolve == InitResolve /\ [][NextResolve]_vars

\* the first of the three sources that yields an id
FirstSourceWithId(sources) ==
  IF Truthy(sources.config) THEN sources.config
  ELSE IF Truthy(AdIdMatch(sources.text)) THEN AdIdMatch(sources.text)
  ELSE IF Truthy(sources.response) THEN sources.response
  ELSE Null

\* C30: the ad id a pass resolves is the first id found among the player
\* configuration, the pattern in the debug text and the initial response, in
\* this order, and null only when none of them yields an id.
C30_FirstSourceWins ==
  obs.pass = "resolve" => obs.resolvedAdId = FirstSourceWithId(obs.sources)

\* ---------------------------------------------------------------------------
\* Duration tracker and posted records
\* ---------------------------------------------------------------------------

\* C31: after a pass that posts a record with adActive = false (the pass over
\* a page without player, or a sampling pass of a watch page) the duration
\* tracker is not tracking any more.
C31_InactivePostStopsTracking ==
  (obs.posted /\ obs.pass \in {"main", "watch"} /\ ~obs.lastPosted.adActive)
    => ~obs.tracker.isTracking

\* C32: a detected change of the video id in the page URL resets the ad
\* sequence context: consecutiveAdCount = 0, isInAdSequence = false,
\* lastVideoContextTime = 0 and lastVideoContextDuration = 0 afterwards.
C32_VideoChangeResetsSequence ==
  [][DetectVideoChange =>
       /\ cls'.consecutiveAdCount = 0
       /\ ~cls'.isInAdSequence
       /\ cls'.lastVideoContextTime = 0
       /\ cls'.lastVideoContextDuration = 0]_vars

\* ---------------------------------------------------------------------------
\* Debouncing
\* ---------------------------------------------------------------------------

MaxDebounceTriggers == 2
MaxDebounceClock == 500

\* The calls of debounce in the page script: the 3 s interval, the 1 s
\* interval and the animation frame requested by detectVideoChange.
DebounceCalls ==
  {[func |-> "checkDebugInfoAndAdState", delay |-> 500, key |-> "debug_check"],
   [func |-> "detectVideoChange", delay |-> 200, key |-> "video_change"],
   [func |-> "checkDebugInfoAndAdState", delay |-> 300, key |-> "debug_check"]}

Debounce(call) ==
  /\ Len(obs.debounce.triggers) < MaxDebounceTriggers
  /\ obs' = [obs EXCEPT !.debounce = debounce(@, call.func, call.delay, call.key),
                        !.pass = "debounce"]
  /\ UNCHANGED <<coordVars, cls, cs>>

DebounceTimeout(id) ==
  /\ id \in obs.debounce.timers
  /\ obs.debounce.clock >= obs.debounce.triggers[id].at + obs.debounce.triggers[id].delay
  /\ obs' = [obs EXCEPT !.debounce = debounceTimeout(@, id), !.pass = "debounce"]
  /\ UNCHANGED <<coordVars, cls, cs>>

DebounceFrame ==
  /\ obs.debounce.frames # <<>>
  /\ obs' = [obs EXCEPT !.debounce = debounceFrame(@), !.pass = "debounce"]
  /\ UNCHANGED <<coordVars, cls, cs>>

DebounceTick ==
  /\ obs.debounce.clock < MaxDebounceClock
  /\ obs' = [obs EXCEPT !.debounce.clock = @ + 100]
  /\ UNCHANGED <<coordVars, cls, cs>>

NextDebounce ==
  \/ \E call \in DebounceCalls : Debounce(call)
  \/ \E id \in 1..MaxDebounceTriggers : DebounceTimeout(id)
  \/ DebounceFrame
  \/ DebounceTick
  \/ HandleNavigation

SpecDebounce == Init /\ [][NextDebounce]_vars

TimersOf(db, key) == {id \in db.timers : db.triggers[id].key = key}

InvokedIds(db) == {db.invoked[i].id : i \in 1..Len(db.invoked)}

Outstanding(db) ==
  db.timers \cup {db.frames[i] : i \in 1..Len(db.frames)} \cup InvokedIds(db)

\* Each key has at most one timer pending.  No trigger is invoked twice; an
\* invoked trigger was not followed by another trigger of its key while its
\* timer was pending, and it is invoked with the function it passed, no
\* earlier than its delay after it.  A trigger that was neither followed by
\* another one of its key nor cancelled by clearAllDebounces is pending, waits
\* for its animation frame or has been invoked.
DebounceOncePerBurst(db) ==
  /\ \A key \in DebounceKeys : Cardinality(TimersOf(db, key)) <= 1
  /\ \A i \in 1..Len(db.invoked) :
       /\ db.invoked[i].id \notin db.superseded \cup db.cancelled
       /\ db.invoked[i].func = db.triggers[db.invoked[i].id].func
       /\ db.invoked[i].at >= db.triggers[db.invoked[i].id].at
                              + db.triggers[db.invoked[i].id].delay
       /\ \A j \in 1..Len(db.invoked) : db.invoked[j].id = db.invoked[i].id => j = i
  /\ \A id \in 1..Len(db.triggers) :
       id \notin db.superseded \cup db.cancelled => id \in Outstanding(db)
  /\ (db.superseded \cup db.cancelled) \cap Outstanding(db) = {}

\* C33 (as stated): at most one timer is pending per key, and a burst of
\* triggers under one key produces exactly one invocation, of the function
\* passed by the last trigger and no earlier than the delay after it: the
\* last trigger of a burst is never lost.
C33_BurstInvokesExactlyOnce ==
  /\ DebounceOncePerBurst(obs.debounce)
  /\ obs.debounce.cancelled = {}

\* C33 (amended): as above, except that clearAllDebounces may cancel the last
\* trigger of a burst, which then produces no invocation.
C33_BurstInvokesAtMostOnce == DebounceOncePerBurst(obs.debounce)

\* A burst of two triggers under debug_check with different delays: the
\* first is superseded, the second has been invoked.
C33_Witness ==
  /\ Len(obs.debounce.triggers) >= 2
  /\ obs.debounce.triggers[1].key = "debug_check"
  /\ obs.debounce.triggers[2].key = "debug_check"
  /\ obs.debounce.triggers[1].delay # obs.debounce.triggers[2].delay
  /\ obs.debounce.triggers[2].at > obs.debounce.triggers[1].at
  /\ 1 \in obs.debounce.superseded
  /\ 2 \in InvokedIds(obs.debounce)

\* ---------------------------------------------------------------------------
\* One continuous ad activation
\* ---------------------------------------------------------------------------

MaxActivationEvents == 4
MaxActivationTicks == 2

\* Observation Events of one tab that all report the same ad id as active;
\* only the debug text varies.
ActivationEvents == ObservationEvents(DebugTexts, {"ad_AAAAAAAA"}, {Null})
ActivationTimeSteps == {AD_DEDUP_MS + 1, MAX_AGE + 1}

NextActivation ==
  \/ \E d \in ActivationTimeSteps : ticks < MaxActivationTicks /\ Tick(d)
  \/ \E message \in ActivationEvents :
       nEvents < MaxActivationEvents /\ VideoDebugAll(1, message)
  \/ nEvents < MaxActivationEvents /\ AdDetected(1)
  \/ nEvents < MaxActivationEvents /\ AdEnded(1)
  \/ nEvents < MaxActivationEvents /\ ForceCleanup
  \/ nEvents < MaxActivationEvents /\ CleanupMemory
  \/ SaveAdTimestampRead
  \/ SaveAdTimestampWritten

SpecActivation == Init /\ [][NextActivation]_vars

\* C34: while the Observation Events of a tab keep reporting the same ad id
\* as active, the activation has at most one entry in the ad collection,
\* whatever AD_DETECTED and AD_ENDED messages, sweeps and emergency clears
\* happen meanwhile.
C34_OneEntryPerActivation == Len(adTimestamps) <= 1

\* ---------------------------------------------------------------------------
\* Order of the posted records
\* ---------------------------------------------------------------------------

\* C35: the second type detection, one second after a new ad of unknown type,
\* posts a record only when the ad id it captured is still the ad id of the
\* latest sample.
C35_TypeRetryPostsOnlyTheCurrentAd ==
  (obs.pass = "typeRetry" /\ obs.posted)
    => obs.lastPosted.addebug_videoId = obs.lastAdDebugVideoId

\* ---------------------------------------------------------------------------
\* Queries against concurrent countings
\* ---------------------------------------------------------------------------

\* every entry of the list younger than 24 hours at time t is in the list
\* kept, as many times
KeepsYoung(list, kept, t) ==
  \A i \in 1..Len(list) :
    (t - list[i].timestamp) < DAY_MS
      => CountEntries(kept, list[i]) >= CountEntries(list, list[i])

\* C36: the write of GET_ADS_LAST_24H and of GET_VIDEOS_LAST_24H removes no
\* entry younger than 24 hours from the persisted collection, also when a
\* counting operation wrote between the query's read and its write.
C36_QueryKeepsYoungEntries ==
  [][/\ GetAdsDone => KeepsYoung(adTimestamps, adTimestamps', now)
     /\ GetVideosDone => KeepsYoung(videoTimestamps, videoTimestamps', now)]_vars

\* ---------------------------------------------------------------------------
\* Two tabs counting two videos
\* ---------------------------------------------------------------------------

MaxTwoVideoEvents == 3

\* Observation Events without ad that name one of the two video ids
TwoVideoEvents == ObservationEvents(DebugTexts, {Null}, VideoIds)

NextTwoVideos ==
  \/ \E tabId \in Tabs, message \in TwoVideoEvents :
       nEvents < MaxTwoVideoEvents /\ VideoDebugAll(tabId, message)
  \/ VideoCountingRead
  \/ VideoCountingWritten

SpecTwoVideos == Init /\ [][NextTwoVideos]_vars

\* C37: once every storage callback has run, the persisted video collection
\* holds the id of every video that was appended, also when the reads and
\* writes of two tabs counting two different ids interleaved.
C37_BothVideosPersisted ==
  pending = <<>> =>
    \A i \in 1..Len(videoPushed) : videoPushed[i].id \in UniqueIds(videoTimestamps)

\* ---------------------------------------------------------------------------
\* From the page observer to the coordinator's record
\* ---------------------------------------------------------------------------

MaxRestoreEvents == 4
MaxRestoreTicks == 3

\* The records the page observer posts while no ad is active: the empty
\* record of a page without player, and the record of a watch page.
RestoreRecords ==
  {[debugText |-> text, debug_videoId |-> videoId, addebug_videoId |-> Null] :
     text \in DebugTexts, videoId \in {Null, "vid_AAAAAAA"}}

RestoreTimeSteps == {MIN_SEND_GAP_MS, MAX_AGE + 1}

\* A sampling pass of tab 1 posts data: the content script's listener calls
\* sendMessage, and what it sends is handled by the coordinator.
ForwardedPass(data) ==
  /\ \E c \in {sendMessage(cs, [type |-> "VIDEO_DEBUG_ALL", debugText |-> data.debugText,
                                adActive |-> Truthy(data.addebug_videoId),
                                addebug_videoId |-> data.addebug_videoId,
                                debug_videoId |-> data.debug_videoId], now)} :
       /\ cs' = [c EXCEPT !.call = "listener"]
       /\ IF c.sent
          THEN HandleVideoDebugAll(1, ObserverMessage(data.debugText, data.addebug_videoId,
                                                      data.debug_videoId, Null))
          ELSE UNCHANGED coordVars
  /\ UNCHANGED <<cls, obs>>

NextRestore ==
  \/ \E d \in RestoreTimeSteps : ticks < MaxRestoreTicks /\ Tick(d)
  \/ \E data \in RestoreRecords : nEvents < MaxRestoreEvents /\ ForwardedPass(data)
  \/ nEvents < MaxRestoreEvents /\ CleanupMemory
  \/ nEvents < MaxRestoreEvents /\ ForceCleanup

SpecRestore == Init /\ [][NextRestore]_vars

\* C38: a sampling pass of an open tab that comes at least 500 ms after the
\* last message sent leaves the coordinator with a record of the tab that has
\* the video id, ad id and activity of the pass, also after a sweep or an
\* emergency clear has dropped the record and the page has not changed.
C38_PassRestoresTheRecord ==
  [][\A data \in RestoreRecords :
       (ForwardedPass(data) /\ now - cs.lastSentTime >= MIN_SEND_GAP_MS)
         => /\ 1 \in DOMAIN debugDataByTab'
            /\ debugDataByTab'[1].debug_videoId = data.debug_videoId
            /\ debugDataByTab'[1].addebug_videoId = data.addebug_videoId
            /\ debugDataByTab'[1].adActive = Truthy(data.addebug_videoId)]_vars

\* ---------------------------------------------------------------------------
\* The two position classifiers on the same inputs
\* ---------------------------------------------------------------------------

\* Both classifiers applied to one page: detectAdTypeCommon's position for
\* the current time and total duration it reads, and detectarPosicionAnuncio
\* called with that time and that duration.
ComparePositions(element, player) ==
  /\ \E reference \in {PositionReference(cls, element, player)} :
       cls' = [cls EXCEPT !.called = TRUE,
                          !.adStartTime = reference[1],
                          !.videoDuration = reference[2],
                          !.referenceTime = ReferenceTime(reference[1], cls, element),
                          !.ended = element.ended,
                          !.readyState = element.readyState,
                          !.returned = detectarPosicionAnuncio(reference[1], reference[2],
                                                               cls, element),
                          !.position = AdPositionOf(cls, element, player)]
  /\ UNCHANGED <<coordVars, obs, cs>>

NextPosition ==
  \E element \in VideoElements, player \in PlayerInfos : ComparePositions(element, player)

SpecPosition == Init /\ [][NextPosition]_vars

\* C39: for the same reference time, duration and ended flag the position
\* detectAdTypeCommon attaches to the descriptor is the position
\* detectarPosicionAnuncio returns.
C39_ClassifiersAgree ==
  (cls.called /\ cls.referenceTime = cls.adStartTime) => cls.position = cls.returned

\* ---------------------------------------------------------------------------
\* Duration fields of the descriptor
\* ---------------------------------------------------------------------------

\* C40: in every descriptor detectAdTypeCommon returns, durationDetected
\* implies a duration above 0 and a durationSource other than 'estimation'
\* and 'none', and durationSource is 'none' only with duration 0.
C40_DetectedDurationIsPositive ==
  DescriptorBuilt =>
    /\ obs.descriptor.durationDetected
         => /\ obs.descriptor.duration > 0
            /\ obs.descriptor.durationSource \notin {"estimation", "none"}
    /\ obs.descriptor.durationSource = "none" => obs.descriptor.duration = 0

====
